---------------------------- MODULE Spec2Model ----------------------------
(***************************************************************************)
(* revokr: building and extending certificate revocation lists.            *)
(*                                                                         *)
(* The model follows one run of the `create` command (cmdCreate) step by   *)
(* step: the serial files are read, the issuer certificate and key are     *)
(* loaded, the prior CRLs are merged, the CRL number is resolved and the   *)
(* list is built (signed, or as a to-be-signed body plus digest).          *)
(* The `assemble` command is one step, a lineage is a run of `create`     *)
(* started again on the list the last run wrote, and the build helper of   *)
(* src/builder is a program of its own with its own steps.                 *)
(*                                                                         *)
(* Text is a sequence of one-character strings, so that trimming, case     *)
(* folding, prefix stripping and number parsing are computed as the code   *)
(* computes them.  Times are integers written yyyymmdd.  Encoded           *)
(* structures (DER) are tuples of their fields: two encodings are the same *)
(* bytes exactly when the tuples are equal.                                *)
(***************************************************************************)
EXTENDS Integers, Sequences, FiniteSets, TLC

(* ------------------------------ bounds -------------------------------- *)

\* lines in a serials file (include or ignore)
MaxLines == 1

\* prior CRL files given with --extend in the merge scenarios
MaxMergeSources == 2

\* prior CRL files given with --extend in the numbering scenarios
MaxNumberSources == 3

\* lines in the include file of the registry scenarios
MaxRegistryLines == 3

\* builds in a lineage: a first build and the builds that extend its output
MaxBuilds == 3

(* ------------------------------- text --------------------------------- *)

UpperChars == <<"A","B","C","D","E","F","G","H","I","J","K","L","M",
                "N","O","P","Q","R","S","T","U","V","W","X","Y","Z">>

LowerChars == <<"a","b","c","d","e","f","g","h","i","j","k","l","m",
                "n","o","p","q","r","s","t","u","v","w","x","y","z">>

DecChars == <<"0","1","2","3","4","5","6","7","8","9">>

\* strings.TrimSpace strips the characters of unicode.IsSpace: the six of
\* ASCII and the other characters with the White_Space property.  A character
\* that cannot be written in a string is named by its code point.
SpaceChars ==
  {" ", "\t", "\n", "U+000B", "\f", "\r", "U+0085", "U+00A0", "U+1680",
   "U+2000", "U+2001", "U+2002", "U+2003", "U+2004", "U+2005", "U+2006", "U+2007",
   "U+2008", "U+2009", "U+200A", "U+2028", "U+2029", "U+202F", "U+205F", "U+3000"}

IndexIn(c, chars) == CHOOSE i \in 1..Len(chars) : chars[i] = c

IsIn(c, chars) == \E i \in 1..Len(chars) : chars[i] = c

\* unicode.ToLower outside ASCII: every character of Unicode 15.0 that has a
\* lower-case mapping, as the function from the character to its lower case.
\* The pairs are those of unicode.CaseRanges, each capital followed by its
\* lower case (the capital I with a dot, U+0130, has the ASCII i).
CaseRanges ==
  LET pairs == <<
     "U+00C0", "U+00E0",  "U+00C1", "U+00E1",  "U+00C2", "U+00E2",  "U+00C3", "U+00E3",  "U+00C4", "U+00E4",
     "U+00C5", "U+00E5",  "U+00C6", "U+00E6",  "U+00C7", "U+00E7",  "U+00C8", "U+00E8",  "U+00C9", "U+00E9",
     "U+00CA", "U+00EA",  "U+00CB", "U+00EB",  "U+00CC", "U+00EC",  "U+00CD", "U+00ED",  "U+00CE", "U+00EE",
     "U+00CF", "U+00EF",  "U+00D0", "U+00F0",  "U+00D1", "U+00F1",  "U+00D2", "U+00F2",  "U+00D3", "U+00F3",
     "U+00D4", "U+00F4",  "U+00D5", "U+00F5",  "U+00D6", "U+00F6",  "U+00D8", "U+00F8",  "U+00D9", "U+00F9",
     "U+00DA", "U+00FA",  "U+00DB", "U+00FB",  "U+00DC", "U+00FC",  "U+00DD", "U+00FD",  "U+00DE", "U+00FE",
     "U+0100", "U+0101",  "U+0102", "U+0103",  "U+0104", "U+0105",  "U+0106", "U+0107",  "U+0108", "U+0109",
     "U+010A", "U+010B",  "U+010C", "U+010D",  "U+010E", "U+010F",  "U+0110", "U+0111",  "U+0112", "U+0113",
     "U+0114", "U+0115",  "U+0116", "U+0117",  "U+0118", "U+0119",  "U+011A", "U+011B",  "U+011C", "U+011D",
     "U+011E", "U+011F",  "U+0120", "U+0121",  "U+0122", "U+0123",  "U+0124", "U+0125",  "U+0126", "U+0127",
     "U+0128", "U+0129",  "U+012A", "U+012B",  "U+012C", "U+012D",  "U+012E", "U+012F",  "U+0130", "i",
     "U+0132", "U+0133",  "U+0134", "U+0135",  "U+0136", "U+0137",  "U+0139", "U+013A",  "U+013B", "U+013C",
     "U+013D", "U+013E",  "U+013F", "U+0140",  "U+0141", "U+0142",  "U+0143", "U+0144",  "U+0145", "U+0146",
     "U+0147", "U+0148",  "U+014A", "U+014B",  "U+014C", "U+014D",  "U+014E", "U+014F",  "U+0150", "U+0151",
     "U+0152", "U+0153",  "U+0154", "U+0155",  "U+0156", "U+0157",  "U+0158", "U+0159",  "U+015A", "U+015B",
     "U+015C", "U+015D",  "U+015E", "U+015F",  "U+0160", "U+0161",  "U+0162", "U+0163",  "U+0164", "U+0165",
     "U+0166", "U+0167",  "U+0168", "U+0169",  "U+016A", "U+016B",  "U+016C", "U+016D",  "U+016E", "U+016F",
     "U+0170", "U+0171",  "U+0172", "U+0173",  "U+0174", "U+0175",  "U+0176", "U+0177",  "U+0178", "U+00FF",
     "U+0179", "U+017A",  "U+017B", "U+017C",  "U+017D", "U+017E",  "U+0181", "U+0253",  "U+0182", "U+0183",
     "U+0184", "U+0185",  "U+0186", "U+0254",  "U+0187", "U+0188",  "U+0189", "U+0256",  "U+018A", "U+0257",
     "U+018B", "U+018C",  "U+018E", "U+01DD",  "U+018F", "U+0259",  "U+0190", "U+025B",  "U+0191", "U+0192",
     "U+0193", "U+0260",  "U+0194", "U+0263",  "U+0196", "U+0269",  "U+0197", "U+0268",  "U+0198", "U+0199",
     "U+019C", "U+026F",  "U+019D", "U+0272",  "U+019F", "U+0275",  "U+01A0", "U+01A1",  "U+01A2", "U+01A3",
     "U+01A4", "U+01A5",  "U+01A6", "U+0280",  "U+01A7", "U+01A8",  "U+01A9", "U+0283",  "U+01AC", "U+01AD",
     "U+01AE", "U+0288",  "U+01AF", "U+01B0",  "U+01B1", "U+028A",  "U+01B2", "U+028B",  "U+01B3", "U+01B4",
     "U+01B5", "U+01B6",  "U+01B7", "U+0292",  "U+01B8", "U+01B9",  "U+01BC", "U+01BD",  "U+01C4", "U+01C6",
     "U+01C5", "U+01C6",  "U+01C7", "U+01C9",  "U+01C8", "U+01C9",  "U+01CA", "U+01CC",  "U+01CB", "U+01CC",
     "U+01CD", "U+01CE",  "U+01CF", "U+01D0",  "U+01D1", "U+01D2",  "U+01D3", "U+01D4",  "U+01D5", "U+01D6",
     "U+01D7", "U+01D8",  "U+01D9", "U+01DA",  "U+01DB", "U+01DC",  "U+01DE", "U+01DF",  "U+01E0", "U+01E1",
     "U+01E2", "U+01E3",  "U+01E4", "U+01E5",  "U+01E6", "U+01E7",  "U+01E8", "U+01E9",  "U+01EA", "U+01EB",
     "U+01EC", "U+01ED",  "U+01EE", "U+01EF",  "U+01F1", "U+01F3",  "U+01F2", "U+01F3",  "U+01F4", "U+01F5",
     "U+01F6", "U+0195",  "U+01F7", "U+01BF",  "U+01F8", "U+01F9",  "U+01FA", "U+01FB",  "U+01FC", "U+01FD",
     "U+01FE", "U+01FF",  "U+0200", "U+0201",  "U+0202", "U+0203",  "U+0204", "U+0205",  "U+0206", "U+0207",
     "U+0208", "U+0209",  "U+020A", "U+020B",  "U+020C", "U+020D",  "U+020E", "U+020F",  "U+0210", "U+0211",
     "U+0212", "U+0213",  "U+0214", "U+0215",  "U+0216", "U+0217",  "U+0218", "U+0219",  "U+021A", "U+021B",
     "U+021C", "U+021D",  "U+021E", "U+021F",  "U+0220", "U+019E",  "U+0222", "U+0223",  "U+0224", "U+0225",
     "U+0226", "U+0227",  "U+0228", "U+0229",  "U+022A", "U+022B",  "U+022C", "U+022D",  "U+022E", "U+022F",
     "U+0230", "U+0231",  "U+0232", "U+0233",  "U+023A", "U+2C65",  "U+023B", "U+023C",  "U+023D", "U+019A",
     "U+023E", "U+2C66",  "U+0241", "U+0242",  "U+0243", "U+0180",  "U+0244", "U+0289",  "U+0245", "U+028C",
     "U+0246", "U+0247",  "U+0248", "U+0249",  "U+024A", "U+024B",  "U+024C", "U+024D",  "U+024E", "U+024F",
     "U+0370", "U+0371",  "U+0372", "U+0373",  "U+0376", "U+0377",  "U+037F", "U+03F3",  "U+0386", "U+03AC",
     "U+0388", "U+03AD",  "U+0389", "U+03AE",  "U+038A", "U+03AF",  "U+038C", "U+03CC",  "U+038E", "U+03CD",
     "U+038F", "U+03CE",  "U+0391", "U+03B1",  "U+0392", "U+03B2",  "U+0393", "U+03B3",  "U+0394", "U+03B4",
     "U+0395", "U+03B5",  "U+0396", "U+03B6",  "U+0397", "U+03B7",  "U+0398", "U+03B8",  "U+0399", "U+03B9",
     "U+039A", "U+03BA",  "U+039B", "U+03BB",  "U+039C", "U+03BC",  "U+039D", "U+03BD",  "U+039E", "U+03BE",
     "U+039F", "U+03BF",  "U+03A0", "U+03C0",  "U+03A1", "U+03C1",  "U+03A3", "U+03C3",  "U+03A4", "U+03C4",
     "U+03A5", "U+03C5",  "U+03A6", "U+03C6",  "U+03A7", "U+03C7",  "U+03A8", "U+03C8",  "U+03A9", "U+03C9",
     "U+03AA", "U+03CA",  "U+03AB", "U+03CB",  "U+03CF", "U+03D7",  "U+03D8", "U+03D9",  "U+03DA", "U+03DB",
     "U+03DC", "U+03DD",  "U+03DE", "U+03DF",  "U+03E0", "U+03E1",  "U+03E2", "U+03E3",  "U+03E4", "U+03E5",
     "U+03E6", "U+03E7",  "U+03E8", "U+03E9",  "U+03EA", "U+03EB",  "U+03EC", "U+03ED",  "U+03EE", "U+03EF",
     "U+03F4", "U+03B8",  "U+03F7", "U+03F8",  "U+03F9", "U+03F2",  "U+03FA", "U+03FB",  "U+03FD", "U+037B",
     "U+03FE", "U+037C",  "U+03FF", "U+037D",  "U+0400", "U+0450",  "U+0401", "U+0451",  "U+0402", "U+0452",
     "U+0403", "U+0453",  "U+0404", "U+0454",  "U+0405", "U+0455",  "U+0406", "U+0456",  "U+0407", "U+0457",
     "U+0408", "U+0458",  "U+0409", "U+0459",  "U+040A", "U+045A",  "U+040B", "U+045B",  "U+040C", "U+045C",
     "U+040D", "U+045D",  "U+040E", "U+045E",  "U+040F", "U+045F",  "U+0410", "U+0430",  "U+0411", "U+0431",
     "U+0412", "U+0432",  "U+0413", "U+0433",  "U+0414", "U+0434",  "U+0415", "U+0435",  "U+0416", "U+0436",
     "U+0417", "U+0437",  "U+0418", "U+0438",  "U+0419", "U+0439",  "U+041A", "U+043A",  "U+041B", "U+043B",
     "U+041C", "U+043C",  "U+041D", "U+043D",  "U+041E", "U+043E",  "U+041F", "U+043F",  "U+0420", "U+0440",
     "U+0421", "U+0441",  "U+0422", "U+0442",  "U+0423", "U+0443",  "U+0424", "U+0444",  "U+0425", "U+0445",
     "U+0426", "U+0446",  "U+0427", "U+0447",  "U+0428", "U+0448",  "U+0429", "U+0449",  "U+042A", "U+044A",
     "U+042B", "U+044B",  "U+042C", "U+044C",  "U+042D", "U+044D",  "U+042E", "U+044E",  "U+042F", "U+044F",
     "U+0460", "U+0461",  "U+0462", "U+0463",  "U+0464", "U+0465",  "U+0466", "U+0467",  "U+0468", "U+0469",
     "U+046A", "U+046B",  "U+046C", "U+046D",  "U+046E", "U+046F",  "U+0470", "U+0471",  "U+0472", "U+0473",
     "U+0474", "U+0475",  "U+0476", "U+0477",  "U+0478", "U+0479",  "U+047A", "U+047B",  "U+047C", "U+047D",
     "U+047E", "U+047F",  "U+0480", "U+0481",  "U+048A", "U+048B",  "U+048C", "U+048D",  "U+048E", "U+048F",
     "U+0490", "U+0491",  "U+0492", "U+0493",  "U+0494", "U+0495",  "U+0496", "U+0497",  "U+0498", "U+0499",
     "U+049A", "U+049B",  "U+049C", "U+049D",  "U+049E", "U+049F",  "U+04A0", "U+04A1",  "U+04A2", "U+04A3",
     "U+04A4", "U+04A5",  "U+04A6", "U+04A7",  "U+04A8", "U+04A9",  "U+04AA", "U+04AB",  "U+04AC", "U+04AD",
     "U+04AE", "U+04AF",  "U+04B0", "U+04B1",  "U+04B2", "U+04B3",  "U+04B4", "U+04B5",  "U+04B6", "U+04B7",
     "U+04B8", "U+04B9",  "U+04BA", "U+04BB",  "U+04BC", "U+04BD",  "U+04BE", "U+04BF",  "U+04C0", "U+04CF",
     "U+04C1", "U+04C2",  "U+04C3", "U+04C4",  "U+04C5", "U+04C6",  "U+04C7", "U+04C8",  "U+04C9", "U+04CA",
     "U+04CB", "U+04CC",  "U+04CD", "U+04CE",  "U+04D0", "U+04D1",  "U+04D2", "U+04D3",  "U+04D4", "U+04D5",
     "U+04D6", "U+04D7",  "U+04D8", "U+04D9",  "U+04DA", "U+04DB",  "U+04DC", "U+04DD",  "U+04DE", "U+04DF",
     "U+04E0", "U+04E1",  "U+04E2", "U+04E3",  "U+04E4", "U+04E5",  "U+04E6", "U+04E7",  "U+04E8", "U+04E9",
     "U+04EA", "U+04EB",  "U+04EC", "U+04ED",  "U+04EE", "U+04EF",  "U+04F0", "U+04F1",  "U+04F2", "U+04F3",
     "U+04F4", "U+04F5",  "U+04F6", "U+04F7",  "U+04F8", "U+04F9",  "U+04FA", "U+04FB",  "U+04FC", "U+04FD",
     "U+04FE", "U+04FF",  "U+0500", "U+0501",  "U+0502", "U+0503",  "U+0504", "U+0505",  "U+0506", "U+0507",
     "U+0508", "U+0509",  "U+050A", "U+050B",  "U+050C", "U+050D",  "U+050E", "U+050F",  "U+0510", "U+0511",
     "U+0512", "U+0513",  "U+0514", "U+0515",  "U+0516", "U+0517",  "U+0518", "U+0519",  "U+051A", "U+051B",
     "U+051C", "U+051D",  "U+051E", "U+051F",  "U+0520", "U+0521",  "U+0522", "U+0523",  "U+0524", "U+0525",
     "U+0526", "U+0527",  "U+0528", "U+0529",  "U+052A", "U+052B",  "U+052C", "U+052D",  "U+052E", "U+052F",
     "U+0531", "U+0561",  "U+0532", "U+0562",  "U+0533", "U+0563",  "U+0534", "U+0564",  "U+0535", "U+0565",
     "U+0536", "U+0566",  "U+0537", "U+0567",  "U+0538", "U+0568",  "U+0539", "U+0569",  "U+053A", "U+056A",
     "U+053B", "U+056B",  "U+053C", "U+056C",  "U+053D", "U+056D",  "U+053E", "U+056E",  "U+053F", "U+056F",
     "U+0540", "U+0570",  "U+0541", "U+0571",  "U+0542", "U+0572",  "U+0543", "U+0573",  "U+0544", "U+0574",
     "U+0545", "U+0575",  "U+0546", "U+0576",  "U+0547", "U+0577",  "U+0548", "U+0578",  "U+0549", "U+0579",
     "U+054A", "U+057A",  "U+054B", "U+057B",  "U+054C", "U+057C",  "U+054D", "U+057D",  "U+054E", "U+057E",
     "U+054F", "U+057F",  "U+0550", "U+0580",  "U+0551", "U+0581",  "U+0552", "U+0582",  "U+0553", "U+0583",
     "U+0554", "U+0584",  "U+0555", "U+0585",  "U+0556", "U+0586",  "U+10A0", "U+2D00",  "U+10A1", "U+2D01",
     "U+10A2", "U+2D02",  "U+10A3", "U+2D03",  "U+10A4", "U+2D04",  "U+10A5", "U+2D05",  "U+10A6", "U+2D06",
     "U+10A7", "U+2D07",  "U+10A8", "U+2D08",  "U+10A9", "U+2D09",  "U+10AA", "U+2D0A",  "U+10AB", "U+2D0B",
     "U+10AC", "U+2D0C",  "U+10AD", "U+2D0D",  "U+10AE", "U+2D0E",  "U+10AF", "U+2D0F",  "U+10B0", "U+2D10",
     "U+10B1", "U+2D11",  "U+10B2", "U+2D12",  "U+10B3", "U+2D13",  "U+10B4", "U+2D14",  "U+10B5", "U+2D15",
     "U+10B6", "U+2D16",  "U+10B7", "U+2D17",  "U+10B8", "U+2D18",  "U+10B9", "U+2D19",  "U+10BA", "U+2D1A",
     "U+10BB", "U+2D1B",  "U+10BC", "U+2D1C",  "U+10BD", "U+2D1D",  "U+10BE", "U+2D1E",  "U+10BF", "U+2D1F",
     "U+10C0", "U+2D20",  "U+10C1", "U+2D21",  "U+10C2", "U+2D22",  "U+10C3", "U+2D23",  "U+10C4", "U+2D24",
     "U+10C5", "U+2D25",  "U+10C7", "U+2D27",  "U+10CD", "U+2D2D",  "U+13A0", "U+AB70",  "U+13A1", "U+AB71",
     "U+13A2", "U+AB72",  "U+13A3", "U+AB73",  "U+13A4", "U+AB74",  "U+13A5", "U+AB75",  "U+13A6", "U+AB76",
     "U+13A7", "U+AB77",  "U+13A8", "U+AB78",  "U+13A9", "U+AB79",  "U+13AA", "U+AB7A",  "U+13AB", "U+AB7B",
     "U+13AC", "U+AB7C",  "U+13AD", "U+AB7D",  "U+13AE", "U+AB7E",  "U+13AF", "U+AB7F",  "U+13B0", "U+AB80",
     "U+13B1", "U+AB81",  "U+13B2", "U+AB82",  "U+13B3", "U+AB83",  "U+13B4", "U+AB84",  "U+13B5", "U+AB85",
     "U+13B6", "U+AB86",  "U+13B7", "U+AB87",  "U+13B8", "U+AB88",  "U+13B9", "U+AB89",  "U+13BA", "U+AB8A",
     "U+13BB", "U+AB8B",  "U+13BC", "U+AB8C",  "U+13BD", "U+AB8D",  "U+13BE", "U+AB8E",  "U+13BF", "U+AB8F",
     "U+13C0", "U+AB90",  "U+13C1", "U+AB91",  "U+13C2", "U+AB92",  "U+13C3", "U+AB93",  "U+13C4", "U+AB94",
     "U+13C5", "U+AB95",  "U+13C6", "U+AB96",  "U+13C7", "U+AB97",  "U+13C8", "U+AB98",  "U+13C9", "U+AB99",
     "U+13CA", "U+AB9A",  "U+13CB", "U+AB9B",  "U+13CC", "U+AB9C",  "U+13CD", "U+AB9D",  "U+13CE", "U+AB9E",
     "U+13CF", "U+AB9F",  "U+13D0", "U+ABA0",  "U+13D1", "U+ABA1",  "U+13D2", "U+ABA2",  "U+13D3", "U+ABA3",
     "U+13D4", "U+ABA4",  "U+13D5", "U+ABA5",  "U+13D6", "U+ABA6",  "U+13D7", "U+ABA7",  "U+13D8", "U+ABA8",
     "U+13D9", "U+ABA9",  "U+13DA", "U+ABAA",  "U+13DB", "U+ABAB",  "U+13DC", "U+ABAC",  "U+13DD", "U+ABAD",
     "U+13DE", "U+ABAE",  "U+13DF", "U+ABAF",  "U+13E0", "U+ABB0",  "U+13E1", "U+ABB1",  "U+13E2", "U+ABB2",
     "U+13E3", "U+ABB3",  "U+13E4", "U+ABB4",  "U+13E5", "U+ABB5",  "U+13E6", "U+ABB6",  "U+13E7", "U+ABB7",
     "U+13E8", "U+ABB8",  "U+13E9", "U+ABB9",  "U+13EA", "U+ABBA",  "U+13EB", "U+ABBB",  "U+13EC", "U+ABBC",
     "U+13ED", "U+ABBD",  "U+13EE", "U+ABBE",  "U+13EF", "U+ABBF",  "U+13F0", "U+13F8",  "U+13F1", "U+13F9",
     "U+13F2", "U+13FA",  "U+13F3", "U+13FB",  "U+13F4", "U+13FC",  "U+13F5", "U+13FD",  "U+1C90", "U+10D0",
     "U+1C91", "U+10D1",  "U+1C92", "U+10D2",  "U+1C93", "U+10D3",  "U+1C94", "U+10D4",  "U+1C95", "U+10D5",
     "U+1C96", "U+10D6",  "U+1C97", "U+10D7",  "U+1C98", "U+10D8",  "U+1C99", "U+10D9",  "U+1C9A", "U+10DA",
     "U+1C9B", "U+10DB",  "U+1C9C", "U+10DC",  "U+1C9D", "U+10DD",  "U+1C9E", "U+10DE",  "U+1C9F", "U+10DF",
     "U+1CA0", "U+10E0",  "U+1CA1", "U+10E1",  "U+1CA2", "U+10E2",  "U+1CA3", "U+10E3",  "U+1CA4", "U+10E4",
     "U+1CA5", "U+10E5",  "U+1CA6", "U+10E6",  "U+1CA7", "U+10E7",  "U+1CA8", "U+10E8",  "U+1CA9", "U+10E9",
     "U+1CAA", "U+10EA",  "U+1CAB", "U+10EB",  "U+1CAC", "U+10EC",  "U+1CAD", "U+10ED",  "U+1CAE", "U+10EE",
     "U+1CAF", "U+10EF",  "U+1CB0", "U+10F0",  "U+1CB1", "U+10F1",  "U+1CB2", "U+10F2",  "U+1CB3", "U+10F3",
     "U+1CB4", "U+10F4",  "U+1CB5", "U+10F5",  "U+1CB6", "U+10F6",  "U+1CB7", "U+10F7",  "U+1CB8", "U+10F8",
     "U+1CB9", "U+10F9",  "U+1CBA", "U+10FA",  "U+1CBD", "U+10FD",  "U+1CBE", "U+10FE",  "U+1CBF", "U+10FF",
     "U+1E00", "U+1E01",  "U+1E02", "U+1E03",  "U+1E04", "U+1E05",  "U+1E06", "U+1E07",  "U+1E08", "U+1E09",
     "U+1E0A", "U+1E0B",  "U+1E0C", "U+1E0D",  "U+1E0E", "U+1E0F",  "U+1E10", "U+1E11",  "U+1E12", "U+1E13",
     "U+1E14", "U+1E15",  "U+1E16", "U+1E17",  "U+1E18", "U+1E19",  "U+1E1A", "U+1E1B",  "U+1E1C", "U+1E1D",
     "U+1E1E", "U+1E1F",  "U+1E20", "U+1E21",  "U+1E22", "U+1E23",  "U+1E24", "U+1E25",  "U+1E26", "U+1E27",
     "U+1E28", "U+1E29",  "U+1E2A", "U+1E2B",  "U+1E2C", "U+1E2D",  "U+1E2E", "U+1E2F",  "U+1E30", "U+1E31",
     "U+1E32", "U+1E33",  "U+1E34", "U+1E35",  "U+1E36", "U+1E37",  "U+1E38", "U+1E39",  "U+1E3A", "U+1E3B",
     "U+1E3C", "U+1E3D",  "U+1E3E", "U+1E3F",  "U+1E40", "U+1E41",  "U+1E42", "U+1E43",  "U+1E44", "U+1E45",
     "U+1E46", "U+1E47",  "U+1E48", "U+1E49",  "U+1E4A", "U+1E4B",  "U+1E4C", "U+1E4D",  "U+1E4E", "U+1E4F",
     "U+1E50", "U+1E51",  "U+1E52", "U+1E53",  "U+1E54", "U+1E55",  "U+1E56", "U+1E57",  "U+1E58", "U+1E59",
     "U+1E5A", "U+1E5B",  "U+1E5C", "U+1E5D",  "U+1E5E", "U+1E5F",  "U+1E60", "U+1E61",  "U+1E62", "U+1E63",
     "U+1E64", "U+1E65",  "U+1E66", "U+1E67",  "U+1E68", "U+1E69",  "U+1E6A", "U+1E6B",  "U+1E6C", "U+1E6D",
     "U+1E6E", "U+1E6F",  "U+1E70", "U+1E71",  "U+1E72", "U+1E73",  "U+1E74", "U+1E75",  "U+1E76", "U+1E77",
     "U+1E78", "U+1E79",  "U+1E7A", "U+1E7B",  "U+1E7C", "U+1E7D",  "U+1E7E", "U+1E7F",  "U+1E80", "U+1E81",
     "U+1E82", "U+1E83",  "U+1E84", "U+1E85",  "U+1E86", "U+1E87",  "U+1E88", "U+1E89",  "U+1E8A", "U+1E8B",
     "U+1E8C", "U+1E8D",  "U+1E8E", "U+1E8F",  "U+1E90", "U+1E91",  "U+1E92", "U+1E93",  "U+1E94", "U+1E95",
     "U+1E9E", "U+00DF",  "U+1EA0", "U+1EA1",  "U+1EA2", "U+1EA3",  "U+1EA4", "U+1EA5",  "U+1EA6", "U+1EA7",
     "U+1EA8", "U+1EA9",  "U+1EAA", "U+1EAB",  "U+1EAC", "U+1EAD",  "U+1EAE", "U+1EAF",  "U+1EB0", "U+1EB1",
     "U+1EB2", "U+1EB3",  "U+1EB4", "U+1EB5",  "U+1EB6", "U+1EB7",  "U+1EB8", "U+1EB9",  "U+1EBA", "U+1EBB",
     "U+1EBC", "U+1EBD",  "U+1EBE", "U+1EBF",  "U+1EC0", "U+1EC1",  "U+1EC2", "U+1EC3",  "U+1EC4", "U+1EC5",
     "U+1EC6", "U+1EC7",  "U+1EC8", "U+1EC9",  "U+1ECA", "U+1ECB",  "U+1ECC", "U+1ECD",  "U+1ECE", "U+1ECF",
     "U+1ED0", "U+1ED1",  "U+1ED2", "U+1ED3",  "U+1ED4", "U+1ED5",  "U+1ED6", "U+1ED7",  "U+1ED8", "U+1ED9",
     "U+1EDA", "U+1EDB",  "U+1EDC", "U+1EDD",  "U+1EDE", "U+1EDF",  "U+1EE0", "U+1EE1",  "U+1EE2", "U+1EE3",
     "U+1EE4", "U+1EE5",  "U+1EE6", "U+1EE7",  "U+1EE8", "U+1EE9",  "U+1EEA", "U+1EEB",  "U+1EEC", "U+1EED",
     "U+1EEE", "U+1EEF",  "U+1EF0", "U+1EF1",  "U+1EF2", "U+1EF3",  "U+1EF4", "U+1EF5",  "U+1EF6", "U+1EF7",
     "U+1EF8", "U+1EF9",  "U+1EFA", "U+1EFB",  "U+1EFC", "U+1EFD",  "U+1EFE", "U+1EFF",  "U+1F08", "U+1F00",
     "U+1F09", "U+1F01",  "U+1F0A", "U+1F02",  "U+1F0B", "U+1F03",  "U+1F0C", "U+1F04",  "U+1F0D", "U+1F05",
     "U+1F0E", "U+1F06",  "U+1F0F", "U+1F07",  "U+1F18", "U+1F10",  "U+1F19", "U+1F11",  "U+1F1A", "U+1F12",
     "U+1F1B", "U+1F13",  "U+1F1C", "U+1F14",  "U+1F1D", "U+1F15",  "U+1F28", "U+1F20",  "U+1F29", "U+1F21",
     "U+1F2A", "U+1F22",  "U+1F2B", "U+1F23",  "U+1F2C", "U+1F24",  "U+1F2D", "U+1F25",  "U+1F2E", "U+1F26",
     "U+1F2F", "U+1F27",  "U+1F38", "U+1F30",  "U+1F39", "U+1F31",  "U+1F3A", "U+1F32",  "U+1F3B", "U+1F33",
     "U+1F3C", "U+1F34",  "U+1F3D", "U+1F35",  "U+1F3E", "U+1F36",  "U+1F3F", "U+1F37",  "U+1F48", "U+1F40",
     "U+1F49", "U+1F41",  "U+1F4A", "U+1F42",  "U+1F4B", "U+1F43",  "U+1F4C", "U+1F44",  "U+1F4D", "U+1F45",
     "U+1F59", "U+1F51",  "U+1F5B", "U+1F53",  "U+1F5D", "U+1F55",  "U+1F5F", "U+1F57",  "U+1F68", "U+1F60",
     "U+1F69", "U+1F61",  "U+1F6A", "U+1F62",  "U+1F6B", "U+1F63",  "U+1F6C", "U+1F64",  "U+1F6D", "U+1F65",
     "U+1F6E", "U+1F66",  "U+1F6F", "U+1F67",  "U+1F88", "U+1F80",  "U+1F89", "U+1F81",  "U+1F8A", "U+1F82",
     "U+1F8B", "U+1F83",  "U+1F8C", "U+1F84",  "U+1F8D", "U+1F85",  "U+1F8E", "U+1F86",  "U+1F8F", "U+1F87",
     "U+1F98", "U+1F90",  "U+1F99", "U+1F91",  "U+1F9A", "U+1F92",  "U+1F9B", "U+1F93",  "U+1F9C", "U+1F94",
     "U+1F9D", "U+1F95",  "U+1F9E", "U+1F96",  "U+1F9F", "U+1F97",  "U+1FA8", "U+1FA0",  "U+1FA9", "U+1FA1",
     "U+1FAA", "U+1FA2",  "U+1FAB", "U+1FA3",  "U+1FAC", "U+1FA4",  "U+1FAD", "U+1FA5",  "U+1FAE", "U+1FA6",
     "U+1FAF", "U+1FA7",  "U+1FB8", "U+1FB0",  "U+1FB9", "U+1FB1",  "U+1FBA", "U+1F70",  "U+1FBB", "U+1F71",
     "U+1FBC", "U+1FB3",  "U+1FC8", "U+1F72",  "U+1FC9", "U+1F73",  "U+1FCA", "U+1F74",  "U+1FCB", "U+1F75",
     "U+1FCC", "U+1FC3",  "U+1FD8", "U+1FD0",  "U+1FD9", "U+1FD1",  "U+1FDA", "U+1F76",  "U+1FDB", "U+1F77",
     "U+1FE8", "U+1FE0",  "U+1FE9", "U+1FE1",  "U+1FEA", "U+1F7A",  "U+1FEB", "U+1F7B",  "U+1FEC", "U+1FE5",
     "U+1FF8", "U+1F78",  "U+1FF9", "U+1F79",  "U+1FFA", "U+1F7C",  "U+1FFB", "U+1F7D",  "U+1FFC", "U+1FF3",
     "U+2126", "U+03C9",  "U+212A", "k",  "U+212B", "U+00E5",  "U+2132", "U+214E",  "U+2160", "U+2170",
     "U+2161", "U+2171",  "U+2162", "U+2172",  "U+2163", "U+2173",  "U+2164", "U+2174",  "U+2165", "U+2175",
     "U+2166", "U+2176",  "U+2167", "U+2177",  "U+2168", "U+2178",  "U+2169", "U+2179",  "U+216A", "U+217A",
     "U+216B", "U+217B",  "U+216C", "U+217C",  "U+216D", "U+217D",  "U+216E", "U+217E",  "U+216F", "U+217F",
     "U+2183", "U+2184",  "U+24B6", "U+24D0",  "U+24B7", "U+24D1",  "U+24B8", "U+24D2",  "U+24B9", "U+24D3",
     "U+24BA", "U+24D4",  "U+24BB", "U+24D5",  "U+24BC", "U+24D6",  "U+24BD", "U+24D7",  "U+24BE", "U+24D8",
     "U+24BF", "U+24D9",  "U+24C0", "U+24DA",  "U+24C1", "U+24DB",  "U+24C2", "U+24DC",  "U+24C3", "U+24DD",
     "U+24C4", "U+24DE",  "U+24C5", "U+24DF",  "U+24C6", "U+24E0",  "U+24C7", "U+24E1",  "U+24C8", "U+24E2",
     "U+24C9", "U+24E3",  "U+24CA", "U+24E4",  "U+24CB", "U+24E5",  "U+24CC", "U+24E6",  "U+24CD", "U+24E7",
     "U+24CE", "U+24E8",  "U+24CF", "U+24E9",  "U+2C00", "U+2C30",  "U+2C01", "U+2C31",  "U+2C02", "U+2C32",
     "U+2C03", "U+2C33",  "U+2C04", "U+2C34",  "U+2C05", "U+2C35",  "U+2C06", "U+2C36",  "U+2C07", "U+2C37",
     "U+2C08", "U+2C38",  "U+2C09", "U+2C39",  "U+2C0A", "U+2C3A",  "U+2C0B", "U+2C3B",  "U+2C0C", "U+2C3C",
     "U+2C0D", "U+2C3D",  "U+2C0E", "U+2C3E",  "U+2C0F", "U+2C3F",  "U+2C10", "U+2C40",  "U+2C11", "U+2C41",
     "U+2C12", "U+2C42",  "U+2C13", "U+2C43",  "U+2C14", "U+2C44",  "U+2C15", "U+2C45",  "U+2C16", "U+2C46",
     "U+2C17", "U+2C47",  "U+2C18", "U+2C48",  "U+2C19", "U+2C49",  "U+2C1A", "U+2C4A",  "U+2C1B", "U+2C4B",
     "U+2C1C", "U+2C4C",  "U+2C1D", "U+2C4D",  "U+2C1E", "U+2C4E",  "U+2C1F", "U+2C4F",  "U+2C20", "U+2C50",
     "U+2C21", "U+2C51",  "U+2C22", "U+2C52",  "U+2C23", "U+2C53",  "U+2C24", "U+2C54",  "U+2C25", "U+2C55",
     "U+2C26", "U+2C56",  "U+2C27", "U+2C57",  "U+2C28", "U+2C58",  "U+2C29", "U+2C59",  "U+2C2A", "U+2C5A",
     "U+2C2B", "U+2C5B",  "U+2C2C", "U+2C5C",  "U+2C2D", "U+2C5D",  "U+2C2E", "U+2C5E",  "U+2C2F", "U+2C5F",
     "U+2C60", "U+2C61",  "U+2C62", "U+026B",  "U+2C63", "U+1D7D",  "U+2C64", "U+027D",  "U+2C67", "U+2C68",
     "U+2C69", "U+2C6A",  "U+2C6B", "U+2C6C",  "U+2C6D", "U+0251",  "U+2C6E", "U+0271",  "U+2C6F", "U+0250",
     "U+2C70", "U+0252",  "U+2C72", "U+2C73",  "U+2C75", "U+2C76",  "U+2C7E", "U+023F",  "U+2C7F", "U+0240",
     "U+2C80", "U+2C81",  "U+2C82", "U+2C83",  "U+2C84", "U+2C85",  "U+2C86", "U+2C87",  "U+2C88", "U+2C89",
     "U+2C8A", "U+2C8B",  "U+2C8C", "U+2C8D",  "U+2C8E", "U+2C8F",  "U+2C90", "U+2C91",  "U+2C92", "U+2C93",
     "U+2C94", "U+2C95",  "U+2C96", "U+2C97",  "U+2C98", "U+2C99",  "U+2C9A", "U+2C9B",  "U+2C9C", "U+2C9D",
     "U+2C9E", "U+2C9F",  "U+2CA0", "U+2CA1",  "U+2CA2", "U+2CA3",  "U+2CA4", "U+2CA5",  "U+2CA6", "U+2CA7",
     "U+2CA8", "U+2CA9",  "U+2CAA", "U+2CAB",  "U+2CAC", "U+2CAD",  "U+2CAE", "U+2CAF",  "U+2CB0", "U+2CB1",
     "U+2CB2", "U+2CB3",  "U+2CB4", "U+2CB5",  "U+2CB6", "U+2CB7",  "U+2CB8", "U+2CB9",  "U+2CBA", "U+2CBB",
     "U+2CBC", "U+2CBD",  "U+2CBE", "U+2CBF",  "U+2CC0", "U+2CC1",  "U+2CC2", "U+2CC3",  "U+2CC4", "U+2CC5",
     "U+2CC6", "U+2CC7",  "U+2CC8", "U+2CC9",  "U+2CCA", "U+2CCB",  "U+2CCC", "U+2CCD",  "U+2CCE", "U+2CCF",
     "U+2CD0", "U+2CD1",  "U+2CD2", "U+2CD3",  "U+2CD4", "U+2CD5",  "U+2CD6", "U+2CD7",  "U+2CD8", "U+2CD9",
     "U+2CDA", "U+2CDB",  "U+2CDC", "U+2CDD",  "U+2CDE", "U+2CDF",  "U+2CE0", "U+2CE1",  "U+2CE2", "U+2CE3",
     "U+2CEB", "U+2CEC",  "U+2CED", "U+2CEE",  "U+2CF2", "U+2CF3",  "U+A640", "U+A641",  "U+A642", "U+A643",
     "U+A644", "U+A645",  "U+A646", "U+A647",  "U+A648", "U+A649",  "U+A64A", "U+A64B",  "U+A64C", "U+A64D",
     "U+A64E", "U+A64F",  "U+A650", "U+A651",  "U+A652", "U+A653",  "U+A654", "U+A655",  "U+A656", "U+A657",
     "U+A658", "U+A659",  "U+A65A", "U+A65B",  "U+A65C", "U+A65D",  "U+A65E", "U+A65F",  "U+A660", "U+A661",
     "U+A662", "U+A663",  "U+A664", "U+A665",  "U+A666", "U+A667",  "U+A668", "U+A669",  "U+A66A", "U+A66B",
     "U+A66C", "U+A66D",  "U+A680", "U+A681",  "U+A682", "U+A683",  "U+A684", "U+A685",  "U+A686", "U+A687",
     "U+A688", "U+A689",  "U+A68A", "U+A68B",  "U+A68C", "U+A68D",  "U+A68E", "U+A68F",  "U+A690", "U+A691",
     "U+A692", "U+A693",  "U+A694", "U+A695",  "U+A696", "U+A697",  "U+A698", "U+A699",  "U+A69A", "U+A69B",
     "U+A722", "U+A723",  "U+A724", "U+A725",  "U+A726", "U+A727",  "U+A728", "U+A729",  "U+A72A", "U+A72B",
     "U+A72C", "U+A72D",  "U+A72E", "U+A72F",  "U+A732", "U+A733",  "U+A734", "U+A735",  "U+A736", "U+A737",
     "U+A738", "U+A739",  "U+A73A", "U+A73B",  "U+A73C", "U+A73D",  "U+A73E", "U+A73F",  "U+A740", "U+A741",
     "U+A742", "U+A743",  "U+A744", "U+A745",  "U+A746", "U+A747",  "U+A748", "U+A749",  "U+A74A", "U+A74B",
     "U+A74C", "U+A74D",  "U+A74E", "U+A74F",  "U+A750", "U+A751",  "U+A752", "U+A753",  "U+A754", "U+A755",
     "U+A756", "U+A757",  "U+A758", "U+A759",  "U+A75A", "U+A75B",  "U+A75C", "U+A75D",  "U+A75E", "U+A75F",
     "U+A760", "U+A761",  "U+A762", "U+A763",  "U+A764", "U+A765",  "U+A766", "U+A767",  "U+A768", "U+A769",
     "U+A76A", "U+A76B",  "U+A76C", "U+A76D",  "U+A76E", "U+A76F",  "U+A779", "U+A77A",  "U+A77B", "U+A77C",
     "U+A77D", "U+1D79",  "U+A77E", "U+A77F",  "U+A780", "U+A781",  "U+A782", "U+A783",  "U+A784", "U+A785",
     "U+A786", "U+A787",  "U+A78B", "U+A78C",  "U+A78D", "U+0265",  "U+A790", "U+A791",  "U+A792", "U+A793",
     "U+A796", "U+A797",  "U+A798", "U+A799",  "U+A79A", "U+A79B",  "U+A79C", "U+A79D",  "U+A79E", "U+A79F",
     "U+A7A0", "U+A7A1",  "U+A7A2", "U+A7A3",  "U+A7A4", "U+A7A5",  "U+A7A6", "U+A7A7",  "U+A7A8", "U+A7A9",
     "U+A7AA", "U+0266",  "U+A7AB", "U+025C",  "U+A7AC", "U+0261",  "U+A7AD", "U+026C",  "U+A7AE", "U+026A",
     "U+A7B0", "U+029E",  "U+A7B1", "U+0287",  "U+A7B2", "U+029D",  "U+A7B3", "U+AB53",  "U+A7B4", "U+A7B5",
     "U+A7B6", "U+A7B7",  "U+A7B8", "U+A7B9",  "U+A7BA", "U+A7BB",  "U+A7BC", "U+A7BD",  "U+A7BE", "U+A7BF",
     "U+A7C0", "U+A7C1",  "U+A7C2", "U+A7C3",  "U+A7C4", "U+A794",  "U+A7C5", "U+0282",  "U+A7C6", "U+1D8E",
     "U+A7C7", "U+A7C8",  "U+A7C9", "U+A7CA",  "U+A7D0", "U+A7D1",  "U+A7D6", "U+A7D7",  "U+A7D8", "U+A7D9",
     "U+A7F5", "U+A7F6",  "U+FF21", "U+FF41",  "U+FF22", "U+FF42",  "U+FF23", "U+FF43",  "U+FF24", "U+FF44",
     "U+FF25", "U+FF45",  "U+FF26", "U+FF46",  "U+FF27", "U+FF47",  "U+FF28", "U+FF48",  "U+FF29", "U+FF49",
     "U+FF2A", "U+FF4A",  "U+FF2B", "U+FF4B",  "U+FF2C", "U+FF4C",  "U+FF2D", "U+FF4D",  "U+FF2E", "U+FF4E",
     "U+FF2F", "U+FF4F",  "U+FF30", "U+FF50",  "U+FF31", "U+FF51",  "U+FF32", "U+FF52",  "U+FF33", "U+FF53",
     "U+FF34", "U+FF54",  "U+FF35", "U+FF55",  "U+FF36", "U+FF56",  "U+FF37", "U+FF57",  "U+FF38", "U+FF58",
     "U+FF39", "U+FF59",  "U+FF3A", "U+FF5A",  "U+10400", "U+10428",  "U+10401", "U+10429",  "U+10402", "U+1042A",
     "U+10403", "U+1042B",  "U+10404", "U+1042C",  "U+10405", "U+1042D",  "U+10406", "U+1042E",  "U+10407", "U+1042F",
     "U+10408", "U+10430",  "U+10409", "U+10431",  "U+1040A", "U+10432",  "U+1040B", "U+10433",  "U+1040C", "U+10434",
     "U+1040D", "U+10435",  "U+1040E", "U+10436",  "U+1040F", "U+10437",  "U+10410", "U+10438",  "U+10411", "U+10439",
     "U+10412", "U+1043A",  "U+10413", "U+1043B",  "U+10414", "U+1043C",  "U+10415", "U+1043D",  "U+10416", "U+1043E",
     "U+10417", "U+1043F",  "U+10418", "U+10440",  "U+10419", "U+10441",  "U+1041A", "U+10442",  "U+1041B", "U+10443",
     "U+1041C", "U+10444",  "U+1041D", "U+10445",  "U+1041E", "U+10446",  "U+1041F", "U+10447",  "U+10420", "U+10448",
     "U+10421", "U+10449",  "U+10422", "U+1044A",  "U+10423", "U+1044B",  "U+10424", "U+1044C",  "U+10425", "U+1044D",
     "U+10426", "U+1044E",  "U+10427", "U+1044F",  "U+104B0", "U+104D8",  "U+104B1", "U+104D9",  "U+104B2", "U+104DA",
     "U+104B3", "U+104DB",  "U+104B4", "U+104DC",  "U+104B5", "U+104DD",  "U+104B6", "U+104DE",  "U+104B7", "U+104DF",
     "U+104B8", "U+104E0",  "U+104B9", "U+104E1",  "U+104BA", "U+104E2",  "U+104BB", "U+104E3",  "U+104BC", "U+104E4",
     "U+104BD", "U+104E5",  "U+104BE", "U+104E6",  "U+104BF", "U+104E7",  "U+104C0", "U+104E8",  "U+104C1", "U+104E9",
     "U+104C2", "U+104EA",  "U+104C3", "U+104EB",  "U+104C4", "U+104EC",  "U+104C5", "U+104ED",  "U+104C6", "U+104EE",
     "U+104C7", "U+104EF",  "U+104C8", "U+104F0",  "U+104C9", "U+104F1",  "U+104CA", "U+104F2",  "U+104CB", "U+104F3",
     "U+104CC", "U+104F4",  "U+104CD", "U+104F5",  "U+104CE", "U+104F6",  "U+104CF", "U+104F7",  "U+104D0", "U+104F8",
     "U+104D1", "U+104F9",  "U+104D2", "U+104FA",  "U+104D3", "U+104FB",  "U+10570", "U+10597",  "U+10571", "U+10598",
     "U+10572", "U+10599",  "U+10573", "U+1059A",  "U+10574", "U+1059B",  "U+10575", "U+1059C",  "U+10576", "U+1059D",
     "U+10577", "U+1059E",  "U+10578", "U+1059F",  "U+10579", "U+105A0",  "U+1057A", "U+105A1",  "U+1057C", "U+105A3",
     "U+1057D", "U+105A4",  "U+1057E", "U+105A5",  "U+1057F", "U+105A6",  "U+10580", "U+105A7",  "U+10581", "U+105A8",
     "U+10582", "U+105A9",  "U+10583", "U+105AA",  "U+10584", "U+105AB",  "U+10585", "U+105AC",  "U+10586", "U+105AD",
     "U+10587", "U+105AE",  "U+10588", "U+105AF",  "U+10589", "U+105B0",  "U+1058A", "U+105B1",  "U+1058C", "U+105B3",
     "U+1058D", "U+105B4",  "U+1058E", "U+105B5",  "U+1058F", "U+105B6",  "U+10590", "U+105B7",  "U+10591", "U+105B8",
     "U+10592", "U+105B9",  "U+10594", "U+105BB",  "U+10595", "U+105BC",  "U+10C80", "U+10CC0",  "U+10C81", "U+10CC1",
     "U+10C82", "U+10CC2",  "U+10C83", "U+10CC3",  "U+10C84", "U+10CC4",  "U+10C85", "U+10CC5",  "U+10C86", "U+10CC6",
     "U+10C87", "U+10CC7",  "U+10C88", "U+10CC8",  "U+10C89", "U+10CC9",  "U+10C8A", "U+10CCA",  "U+10C8B", "U+10CCB",
     "U+10C8C", "U+10CCC",  "U+10C8D", "U+10CCD",  "U+10C8E", "U+10CCE",  "U+10C8F", "U+10CCF",  "U+10C90", "U+10CD0",
     "U+10C91", "U+10CD1",  "U+10C92", "U+10CD2",  "U+10C93", "U+10CD3",  "U+10C94", "U+10CD4",  "U+10C95", "U+10CD5",
     "U+10C96", "U+10CD6",  "U+10C97", "U+10CD7",  "U+10C98", "U+10CD8",  "U+10C99", "U+10CD9",  "U+10C9A", "U+10CDA",
     "U+10C9B", "U+10CDB",  "U+10C9C", "U+10CDC",  "U+10C9D", "U+10CDD",  "U+10C9E", "U+10CDE",  "U+10C9F", "U+10CDF",
     "U+10CA0", "U+10CE0",  "U+10CA1", "U+10CE1",  "U+10CA2", "U+10CE2",  "U+10CA3", "U+10CE3",  "U+10CA4", "U+10CE4",
     "U+10CA5", "U+10CE5",  "U+10CA6", "U+10CE6",  "U+10CA7", "U+10CE7",  "U+10CA8", "U+10CE8",  "U+10CA9", "U+10CE9",
     "U+10CAA", "U+10CEA",  "U+10CAB", "U+10CEB",  "U+10CAC", "U+10CEC",  "U+10CAD", "U+10CED",  "U+10CAE", "U+10CEE",
     "U+10CAF", "U+10CEF",  "U+10CB0", "U+10CF0",  "U+10CB1", "U+10CF1",  "U+10CB2", "U+10CF2",  "U+118A0", "U+118C0",
     "U+118A1", "U+118C1",  "U+118A2", "U+118C2",  "U+118A3", "U+118C3",  "U+118A4", "U+118C4",  "U+118A5", "U+118C5",
     "U+118A6", "U+118C6",  "U+118A7", "U+118C7",  "U+118A8", "U+118C8",  "U+118A9", "U+118C9",  "U+118AA", "U+118CA",
     "U+118AB", "U+118CB",  "U+118AC", "U+118CC",  "U+118AD", "U+118CD",  "U+118AE", "U+118CE",  "U+118AF", "U+118CF",
     "U+118B0", "U+118D0",  "U+118B1", "U+118D1",  "U+118B2", "U+118D2",  "U+118B3", "U+118D3",  "U+118B4", "U+118D4",
     "U+118B5", "U+118D5",  "U+118B6", "U+118D6",  "U+118B7", "U+118D7",  "U+118B8", "U+118D8",  "U+118B9", "U+118D9",
     "U+118BA", "U+118DA",  "U+118BB", "U+118DB",  "U+118BC", "U+118DC",  "U+118BD", "U+118DD",  "U+118BE", "U+118DE",
     "U+118BF", "U+118DF",  "U+16E40", "U+16E60",  "U+16E41", "U+16E61",  "U+16E42", "U+16E62",  "U+16E43", "U+16E63",
     "U+16E44", "U+16E64",  "U+16E45", "U+16E65",  "U+16E46", "U+16E66",  "U+16E47", "U+16E67",  "U+16E48", "U+16E68",
     "U+16E49", "U+16E69",  "U+16E4A", "U+16E6A",  "U+16E4B", "U+16E6B",  "U+16E4C", "U+16E6C",  "U+16E4D", "U+16E6D",
     "U+16E4E", "U+16E6E",  "U+16E4F", "U+16E6F",  "U+16E50", "U+16E70",  "U+16E51", "U+16E71",  "U+16E52", "U+16E72",
     "U+16E53", "U+16E73",  "U+16E54", "U+16E74",  "U+16E55", "U+16E75",  "U+16E56", "U+16E76",  "U+16E57", "U+16E77",
     "U+16E58", "U+16E78",  "U+16E59", "U+16E79",  "U+16E5A", "U+16E7A",  "U+16E5B", "U+16E7B",  "U+16E5C", "U+16E7C",
     "U+16E5D", "U+16E7D",  "U+16E5E", "U+16E7E",  "U+16E5F", "U+16E7F",  "U+1E900", "U+1E922",  "U+1E901", "U+1E923",
     "U+1E902", "U+1E924",  "U+1E903", "U+1E925",  "U+1E904", "U+1E926",  "U+1E905", "U+1E927",  "U+1E906", "U+1E928",
     "U+1E907", "U+1E929",  "U+1E908", "U+1E92A",  "U+1E909", "U+1E92B",  "U+1E90A", "U+1E92C",  "U+1E90B", "U+1E92D",
     "U+1E90C", "U+1E92E",  "U+1E90D", "U+1E92F",  "U+1E90E", "U+1E930",  "U+1E90F", "U+1E931",  "U+1E910", "U+1E932",
     "U+1E911", "U+1E933",  "U+1E912", "U+1E934",  "U+1E913", "U+1E935",  "U+1E914", "U+1E936",  "U+1E915", "U+1E937",
     "U+1E916", "U+1E938",  "U+1E917", "U+1E939",  "U+1E918", "U+1E93A",  "U+1E919", "U+1E93B",  "U+1E91A", "U+1E93C",
     "U+1E91B", "U+1E93D",  "U+1E91C", "U+1E93E",  "U+1E91D", "U+1E93F",  "U+1E91E", "U+1E940",  "U+1E91F", "U+1E941",
     "U+1E920", "U+1E942",  "U+1E921", "U+1E943" >>
      n == Len(pairs) \div 2
  IN [c \in {pairs[2 * i - 1] : i \in 1..n} |->
        pairs[2 * (CHOOSE i \in 1..n : pairs[2 * i - 1] = c)]]

\* strings.ToLower, one character: unicode.ToLower of a letter, in and out of
\* ASCII; a byte that is not UTF-8 comes out as the replacement character
ToLowerChar(c) ==
  IF IsIn(c, UpperChars) THEN LowerChars[IndexIn(c, UpperChars)]
  ELSE IF c = "0xFF" THEN "U+FFFD"
  ELSE IF c \in DOMAIN CaseRanges THEN CaseRanges[c]
  ELSE c

\* strings.ToLower
ToLower(s) == [i \in 1..Len(s) |-> ToLowerChar(s[i])]

RECURSIVE TrimLeft(_)
TrimLeft(s) == IF s # <<>> /\ Head(s) \in SpaceChars THEN TrimLeft(Tail(s)) ELSE s

RECURSIVE TrimRight(_)
TrimRight(s) ==
  IF s # <<>> /\ s[Len(s)] \in SpaceChars THEN TrimRight(SubSeq(s, 1, Len(s) - 1)) ELSE s

\* strings.TrimSpace
TrimSpace(s) == TrimRight(TrimLeft(s))

HasPrefix(s, p) == Len(s) >= Len(p) /\ SubSeq(s, 1, Len(p)) = p

\* strings.TrimPrefix: the prefix is removed once
TrimPrefix(s, p) == IF HasPrefix(s, p) THEN SubSeq(s, Len(p) + 1, Len(s)) ELSE s

(* --------------------------- math/big.Int ----------------------------- *)

\* the value of a digit character, or 99 when it is none (big.Int accepts
\* 0-9, a-z and A-Z, the letters without regard to case up to base 36)
DigitVal(c) ==
  IF IsIn(c, DecChars) THEN IndexIn(c, DecChars) - 1
  ELSE IF IsIn(c, LowerChars) THEN IndexIn(c, LowerChars) + 9
  ELSE IF IsIn(c, UpperChars) THEN IndexIn(c, UpperChars) + 9
  ELSE 99

RECURSIVE DigitsValue(_, _)
DigitsValue(s, base) ==
  IF s = <<>> THEN 0
  ELSE DigitsValue(SubSeq(s, 1, Len(s) - 1), base) * base + DigitVal(s[Len(s)])

\* nat.mulAddWW(x, y, r): x * y + r on a magnitude, which is a sequence of
\* bytes, the lowest first, with no zero byte at the top
RECURSIVE MulAddWW(_, _, _)
MulAddWW(x, y, r) ==
  IF x = <<>> THEN (IF r = 0 THEN <<>> ELSE <<r % 256>> \o MulAddWW(<<>>, y, r \div 256))
  ELSE LET t    == Head(x) * y + r
           rest == MulAddWW(Tail(x), y, t \div 256)
       IN IF rest = <<>> /\ t % 256 = 0 THEN <<>> ELSE <<t % 256>> \o rest

\* big.NewInt(x): a big.Int is a sign and a magnitude, and zero has no sign
NewInt(x) == [neg |-> x < 0, abs |-> MulAddWW(<<>>, 0, IF x < 0 THEN 0 - x ELSE x)]

\* (*big.Int).Cmp: -1, 0 or 1
Cmp(x, y) ==
  LET mag(a, b) ==
        IF Len(a) # Len(b) THEN (IF Len(a) > Len(b) THEN 1 ELSE -1)
        ELSE IF a = b THEN 0
        ELSE LET k == CHOOSE k \in 1..Len(a) :
                        a[k] # b[k] /\ \A j \in (k + 1)..Len(a) : a[j] = b[j]
             IN IF a[k] > b[k] THEN 1 ELSE -1
  IN IF x.neg # y.neg THEN (IF x.neg THEN -1 ELSE 1)
     ELSE IF x.neg THEN 0 - mag(x.abs, y.abs)
     ELSE mag(x.abs, y.abs)

\* (*big.Int).Add: the magnitudes are added when the signs agree, and the
\* smaller is taken from the larger otherwise
Add(x, y) ==
  LET same  == x.neg = y.neg
      xOver == Cmp([x EXCEPT !.neg = FALSE], [y EXCEPT !.neg = FALSE]) >= 0
      big   == IF xOver THEN x ELSE y
      small == IF xOver THEN y ELSE x
      n     == Len(big.abs)
      at(a, k) == IF k <= Len(a) THEN a[k] ELSE 0
      col[k \in 0..n] ==
        IF k = 0 THEN [carry |-> 0, byte |-> 0]
        ELSE LET t == IF same THEN at(big.abs, k) + at(small.abs, k) + col[k - 1].carry
                      ELSE at(big.abs, k) - at(small.abs, k) - col[k - 1].carry
             IN [carry |-> IF same THEN t \div 256 ELSE (IF t < 0 THEN 1 ELSE 0),
                 byte  |-> (t + 256) % 256]
      full  == [k \in 1..n |-> col[k].byte] \o (IF same /\ col[n].carry = 1 THEN <<1>> ELSE <<>>)
      top   == IF \A k \in 1..Len(full) : full[k] = 0 THEN 0
               ELSE CHOOSE k \in 1..Len(full) :
                      full[k] # 0 /\ \A j \in (k + 1)..Len(full) : full[j] = 0
  IN [neg |-> top # 0 /\ big.neg, abs |-> SubSeq(full, 1, top)]

\* new(big.Int).SetString(s, base) for base 10 and 16: an optional sign, then
\* one or more digits of the base and nothing else; no prefix, no separator
SetString(s, base) ==
  LET signed == s # <<>> /\ Head(s) \in {"+", "-"}
      digits == IF signed THEN Tail(s) ELSE s
      good   == digits # <<>> /\ \A i \in 1..Len(digits) : DigitVal(digits[i]) < base
      z[k \in 0..Len(digits)] ==
        IF k = 0 THEN <<>> ELSE MulAddWW(z[k - 1], base, DigitVal(digits[k]))
      abs    == IF good THEN z[Len(digits)] ELSE <<>>
  IN [ok |-> good, val |-> [neg |-> signed /\ Head(s) = "-" /\ abs # <<>>, abs |-> abs]]

\* (*big.Int).Text(16): lowercase, no prefix, no leading zeros, "-" when negative
Text16(x) ==
  LET HexChars == DecChars \o <<"a", "b", "c", "d", "e", "f">>
      n      == Len(x.abs)
      hex    == [k \in 1..(2 * n) |->
                   LET b == x.abs[n - ((k - 1) \div 2)]
                   IN HexChars[(IF k % 2 = 1 THEN b \div 16 ELSE b % 16) + 1]]
      digits == IF n = 0 THEN <<"0">> ELSE IF hex[1] = "0" THEN Tail(hex) ELSE hex
  IN IF x.neg THEN <<"-">> \o digits ELSE digits

(* -------------------------- Serial Registry --------------------------- *)

\* NormalizeLine without the lower-casing
NormalizeLineKeepsCase(line) ==
  LET l == TrimSpace(line)
  IN IF l # <<>> THEN TrimPrefix(l, <<"0", "x">>) ELSE l

\* NormalizeLine removing a leading "0" where the code removes "0x"
NormalizeLineStripsZero(line) ==
  LET l == ToLower(TrimSpace(line))
  IN IF l # <<>> THEN TrimPrefix(l, <<"0">>) ELSE l

\* one line of a serials file as the loop body treats it: trimmed, lower-cased,
\* and, when not empty, with one "0x" prefix removed
NormalizeLine(line) ==
  LET l == ToLower(TrimSpace(line))
  IN IF l # <<>> THEN TrimPrefix(l, <<"0", "x">>) ELSE l

\* whether the loop appends the line: it is not empty and parses as hexadecimal
LineKept(line) ==
  ToLower(TrimSpace(line)) # <<>> /\ SetString(NormalizeLine(line), 16).ok

\* CollectSerials giving up at the first line that is not kept
RECURSIVE CollectSerialsStopsAtBadLine(_)
CollectSerialsStopsAtBadLine(lines) ==
  IF lines = <<>> THEN <<>>
  ELSE IF ~LineKept(Head(lines)) THEN <<>>
  ELSE <<NormalizeLine(Head(lines))>> \o CollectSerialsStopsAtBadLine(Tail(lines))

RECURSIVE CollectSerials(_)
CollectSerials(lines) ==
  IF lines = <<>> THEN <<>>
  ELSE (IF LineKept(Head(lines)) THEN <<NormalizeLine(Head(lines))>> ELSE <<>>)
       \o CollectSerials(Tail(lines))

RECURSIVE DedupStrings(_, _)
DedupStrings(serials, deduped) ==
  IF serials = <<>> THEN deduped
  ELSE DedupStrings(Tail(serials),
                    IF IsIn(Head(serials), deduped) THEN deduped
                    ELSE Append(deduped, Head(serials)))

\* util.ReadSerialNumbersFromFile: the text of each kept line, deduplicated by
\* that text, in first-seen order; an error when the file cannot be read
ReadSerialNumbersFromFile(path, file) ==
  IF path = "" THEN [err |-> FALSE, serials |-> <<>>]
  ELSE IF ~file.readable THEN [err |-> TRUE, serials |-> <<>>]
  ELSE [err |-> FALSE, serials |-> DedupStrings(CollectSerials(file.lines), <<>>)]

(* -------------------------- Entry Extractor --------------------------- *)

\* "no valid CRL number found"
NoCRLNumber == NewInt(-1)

Range(s) == {s[i] : i \in 1..Len(s)}

\* the merge keeping, for a serial met again, the time of the later entry
RECURSIVE AddEntriesLastWins(_, _)
AddEntriesLastWins(es, acc) ==
  IF es = <<>> THEN acc
  ELSE LET serial == Text16(Head(es).serial)
       IN AddEntriesLastWins(Tail(es),
            IF serial \in acc.seen
            THEN [acc EXCEPT !.entries =
                    [k \in 1..Len(@) |-> IF @[k].serial = Head(es).serial THEN Head(es) ELSE @[k]]]
            ELSE [acc EXCEPT !.seen = @ \cup {serial},
                             !.entries = Append(@, Head(es))])

RECURSIVE AddEntries(_, _)
AddEntries(es, acc) ==
  IF es = <<>> THEN acc
  ELSE LET serial == Text16(Head(es).serial)
       IN AddEntries(Tail(es),
            IF serial \in acc.seen THEN acc
            ELSE [acc EXCEPT !.seen = @ \cup {serial},
                             !.entries = Append(@, Head(es))])

\* ExtractOne with the comparison lost: the number of the last list wins
ExtractOneLastWins(file, acc) ==
  IF acc.panic \/ ~file.readable \/ ~file.parses THEN acc
  ELSE IF ~file.hasNumber THEN [acc EXCEPT !.panic = TRUE]
  ELSE AddEntries(file.entries, [acc EXCEPT !.number = file.number])

\* ExtractOne with a file that cannot be read or parsed ending the loop
ExtractOneStopsAtBadSource(file, acc) ==
  IF acc.panic THEN acc
  ELSE IF ~file.readable \/ ~file.parses THEN [acc EXCEPT !.panic = TRUE]
  ELSE IF ~file.hasNumber THEN [acc EXCEPT !.panic = TRUE]
  ELSE AddEntries(file.entries,
         [acc EXCEPT !.number = IF Cmp(file.number, acc.number) > 0 THEN file.number ELSE @])

\* one pass of the loop over the paths.  A file that cannot be read or parsed
\* is skipped.  A parsed list without a CRL number extension has a nil Number,
\* and comparing it dereferences nil: the run panics.
ExtractOne(file, acc) ==
  IF acc.panic \/ ~file.readable \/ ~file.parses THEN acc
  ELSE IF ~file.hasNumber THEN [acc EXCEPT !.panic = TRUE]
  ELSE AddEntries(file.entries,
         [acc EXCEPT !.number = IF Cmp(file.number, acc.number) > 0 THEN file.number ELSE @])

RECURSIVE ExtractLoop(_, _)
ExtractLoop(files, acc) ==
  IF files = <<>> THEN acc
  ELSE ExtractLoop(Tail(files), ExtractOne(Head(files), acc))

\* crl.ExtractRevocationEntries(ignore, paths...)
ExtractRevocationEntries(ignore, files) ==
  ExtractLoop(files, [panic |-> FALSE, number |-> NoCRLNumber,
                      seen |-> Range(ignore), entries |-> <<>>])

(* ----------------------- Revocation List Builder ---------------------- *)

RECURSIVE IncludeSerials(_, _, _)
IncludeSerials(include, acc, thisUpdate) ==
  IF include = <<>> THEN acc
  ELSE IncludeSerials(Tail(include),
         IF Head(include) \in acc.seen THEN acc
         ELSE [seen    |-> acc.seen \cup {Head(include)},
               entries |-> Append(acc.entries,
                             [serial |-> SetString(Head(include), 16).val,
                              time   |-> thisUpdate])],
         thisUpdate)

\* CreateCRL's revokedCerts: the merged entries, then every include serial
\* whose text is neither the hex text of a merged entry nor in the ignore list
RevokedCerts(entries, include, ignore, thisUpdate) ==
  IncludeSerials(include,
    [seen    |-> {Text16(entries[i].serial) : i \in 1..Len(entries)} \cup Range(ignore),
     entries |-> entries],
    thisUpdate).entries

(* ------------------- certificates, keys, algorithms ------------------- *)

\* the values of crt.SignatureAlgorithm the model covers: the six the tool's
\* table knows
SupportedSigAlgs == {"SHA256WithRSA", "SHA384WithRSA", "SHA512WithRSA",
                     "ECDSAWithSHA256", "ECDSAWithSHA384", "ECDSAWithSHA512"}

\* the key family a signature algorithm belongs to, by the rows of
\* crypto/x509's table of signature algorithms; an algorithm with no row
\* (UnknownSignatureAlgorithm, MD2WithRSA) has none
PubKeyAlgoOf(sigAlg) ==
  CASE sigAlg \in {"MD5WithRSA", "SHA1WithRSA", "SHA256WithRSA", "SHA384WithRSA",
                   "SHA512WithRSA", "SHA256WithRSAPSS", "SHA384WithRSAPSS",
                   "SHA512WithRSAPSS"} -> "RSA"
    [] sigAlg \in {"DSAWithSHA1", "DSAWithSHA256"} -> "DSA"
    [] sigAlg \in {"ECDSAWithSHA1", "ECDSAWithSHA256", "ECDSAWithSHA384",
                   "ECDSAWithSHA512"} -> "ECDSA"
    [] sigAlg = "PureEd25519" -> "Ed25519"
    [] OTHER -> "none"

\* GetSignatureAlgAndHash with the ECDSA-SHA384 row carrying the SHA-256 identifier
GetSignatureAlgAndHashBadTable(crt) ==
  CASE crt.sigAlg = "SHA256WithRSA" ->
         [err |-> FALSE, oid |-> <<1, 2, 840, 113549, 1, 1, 11>>, params |-> "NULL", hash |-> "SHA256"]
    [] crt.sigAlg = "ECDSAWithSHA256" ->
         [err |-> FALSE, oid |-> <<1, 2, 840, 10045, 4, 3, 2>>, params |-> "absent", hash |-> "SHA256"]
    [] crt.sigAlg = "SHA384WithRSA" ->
         [err |-> FALSE, oid |-> <<1, 2, 840, 113549, 1, 1, 12>>, params |-> "NULL", hash |-> "SHA384"]
    [] crt.sigAlg = "ECDSAWithSHA384" ->
         [err |-> FALSE, oid |-> <<1, 2, 840, 10045, 4, 3, 2>>, params |-> "absent", hash |-> "SHA384"]
    [] crt.sigAlg = "SHA512WithRSA" ->
         [err |-> FALSE, oid |-> <<1, 2, 840, 113549, 1, 1, 13>>, params |-> "NULL", hash |-> "SHA512"]
    [] crt.sigAlg = "ECDSAWithSHA512" ->
         [err |-> FALSE, oid |-> <<1, 2, 840, 10045, 4, 3, 4>>, params |-> "absent", hash |-> "SHA512"]
    [] OTHER ->
         [err |-> TRUE, oid |-> <<>>, params |-> "absent", hash |-> "none"]

\* GetSignatureAlgAndHash with a row for RSA-PSS
GetSignatureAlgAndHashWithPSS(crt) ==
  CASE crt.sigAlg = "SHA256WithRSA" ->
         [err |-> FALSE, oid |-> <<1, 2, 840, 113549, 1, 1, 11>>, params |-> "NULL", hash |-> "SHA256"]
    [] crt.sigAlg = "ECDSAWithSHA256" ->
         [err |-> FALSE, oid |-> <<1, 2, 840, 10045, 4, 3, 2>>, params |-> "absent", hash |-> "SHA256"]
    [] crt.sigAlg = "SHA384WithRSA" ->
         [err |-> FALSE, oid |-> <<1, 2, 840, 113549, 1, 1, 12>>, params |-> "NULL", hash |-> "SHA384"]
    [] crt.sigAlg = "ECDSAWithSHA384" ->
         [err |-> FALSE, oid |-> <<1, 2, 840, 10045, 4, 3, 3>>, params |-> "absent", hash |-> "SHA384"]
    [] crt.sigAlg = "SHA512WithRSA" ->
         [err |-> FALSE, oid |-> <<1, 2, 840, 113549, 1, 1, 13>>, params |-> "NULL", hash |-> "SHA512"]
    [] crt.sigAlg = "ECDSAWithSHA512" ->
         [err |-> FALSE, oid |-> <<1, 2, 840, 10045, 4, 3, 4>>, params |-> "absent", hash |-> "SHA512"]
    [] crt.sigAlg = "SHA256WithRSAPSS" ->
         [err |-> FALSE, oid |-> <<1, 2, 840, 113549, 1, 1, 10>>, params |-> "PSS-SHA256", hash |-> "SHA256"]
    [] OTHER ->
         [err |-> TRUE, oid |-> <<>>, params |-> "absent", hash |-> "none"]

\* util.GetSignatureAlgAndHash: the AlgorithmIdentifier assembly writes and
\* the hash of the digest, from the issuer certificate's signature algorithm
GetSignatureAlgAndHash(crt) ==
  CASE crt.sigAlg = "SHA256WithRSA" ->
         [err |-> FALSE, oid |-> <<1, 2, 840, 113549, 1, 1, 11>>, params |-> "NULL", hash |-> "SHA256"]
    [] crt.sigAlg = "ECDSAWithSHA256" ->
         [err |-> FALSE, oid |-> <<1, 2, 840, 10045, 4, 3, 2>>, params |-> "absent", hash |-> "SHA256"]
    [] crt.sigAlg = "SHA384WithRSA" ->
         [err |-> FALSE, oid |-> <<1, 2, 840, 113549, 1, 1, 12>>, params |-> "NULL", hash |-> "SHA384"]
    [] crt.sigAlg = "ECDSAWithSHA384" ->
         [err |-> FALSE, oid |-> <<1, 2, 840, 10045, 4, 3, 3>>, params |-> "absent", hash |-> "SHA384"]
    [] crt.sigAlg = "SHA512WithRSA" ->
         [err |-> FALSE, oid |-> <<1, 2, 840, 113549, 1, 1, 13>>, params |-> "NULL", hash |-> "SHA512"]
    [] crt.sigAlg = "ECDSAWithSHA512" ->
         [err |-> FALSE, oid |-> <<1, 2, 840, 10045, 4, 3, 4>>, params |-> "absent", hash |-> "SHA512"]
    [] OTHER ->
         [err |-> TRUE, oid |-> <<>>, params |-> "absent", hash |-> "none"]

\* the AlgorithmIdentifier of the assembled structure
AlgId(oid, params) == <<"alg", oid, params>>

\* crypto/x509's own table, which x509.CreateRevocationList writes into the
\* list it signs: the identifier of each algorithm that has a row
X509AlgorithmIdentifier(sigAlg) ==
  CASE sigAlg = "MD5WithRSA"       -> AlgId(<<1, 2, 840, 113549, 1, 1, 4>>, "NULL")
    [] sigAlg = "SHA1WithRSA"      -> AlgId(<<1, 2, 840, 113549, 1, 1, 5>>, "NULL")
    [] sigAlg = "SHA256WithRSA"    -> AlgId(<<1, 2, 840, 113549, 1, 1, 11>>, "NULL")
    [] sigAlg = "SHA384WithRSA"    -> AlgId(<<1, 2, 840, 113549, 1, 1, 12>>, "NULL")
    [] sigAlg = "SHA512WithRSA"    -> AlgId(<<1, 2, 840, 113549, 1, 1, 13>>, "NULL")
    [] sigAlg = "SHA256WithRSAPSS" -> AlgId(<<1, 2, 840, 113549, 1, 1, 10>>, "PSS-SHA256")
    [] sigAlg = "SHA384WithRSAPSS" -> AlgId(<<1, 2, 840, 113549, 1, 1, 10>>, "PSS-SHA384")
    [] sigAlg = "SHA512WithRSAPSS" -> AlgId(<<1, 2, 840, 113549, 1, 1, 10>>, "PSS-SHA512")
    [] sigAlg = "DSAWithSHA1"      -> AlgId(<<1, 2, 840, 10040, 4, 3>>, "absent")
    [] sigAlg = "DSAWithSHA256"    -> AlgId(<<2, 16, 840, 1, 101, 3, 4, 3, 2>>, "absent")
    [] sigAlg = "ECDSAWithSHA1"    -> AlgId(<<1, 2, 840, 10045, 4, 1>>, "absent")
    [] sigAlg = "ECDSAWithSHA256"  -> AlgId(<<1, 2, 840, 10045, 4, 3, 2>>, "absent")
    [] sigAlg = "ECDSAWithSHA384"  -> AlgId(<<1, 2, 840, 10045, 4, 3, 3>>, "absent")
    [] sigAlg = "ECDSAWithSHA512"  -> AlgId(<<1, 2, 840, 10045, 4, 3, 4>>, "absent")
    [] sigAlg = "PureEd25519"      -> AlgId(<<1, 3, 101, 112>>, "absent")

\* crypto/x509 signingParamsForKey: with no algorithm requested the default
\* of the signer's key family is used (the model's ECDSA keys are on P-256).
\* The algorithm must have a row in the table, the row's key family must be
\* the signer's, and its hash must not be MD5.
SigningAlgForKey(key, requested) ==
  LET sigAlg == IF requested # "UnknownSignatureAlgorithm" THEN requested
                ELSE CASE key.type = "RSA" -> "SHA256WithRSA"
                       [] key.type = "ECDSA" -> "ECDSAWithSHA256"
                       [] OTHER -> "PureEd25519"
  IN IF \/ key.type \notin {"RSA", "ECDSA", "Ed25519"}
        \/ PubKeyAlgoOf(sigAlg) # key.type
        \/ sigAlg = "MD5WithRSA"
     THEN [err |-> TRUE, sigAlg |-> "UnknownSignatureAlgorithm"]
     ELSE [err |-> FALSE, sigAlg |-> sigAlg]

NoKey == [type |-> "none", pub |-> 0]

\* util.DummySigner: a fresh key of the certificate key's family.  The switch
\* tests *ed25519.PublicKey, and a parsed certificate holds ed25519.PublicKey,
\* so an Ed25519 certificate falls through to the error.
DummySigner(crt, fresh) ==
  IF crt.keyType \in {"ECDSA", "RSA"}
  THEN [err |-> FALSE, key |-> [type |-> crt.keyType, pub |-> fresh]]
  ELSE [err |-> TRUE, key |-> NoKey]

\* util.VerifyCrtKeyMatch.  key.Public() of an Ed25519 signer is an
\* ed25519.PublicKey, which the *ed25519.PublicKey case does not match: such a
\* key ends in the default case.
VerifyCrtKeyMatch(crt, key) ==
  CASE key.type = "RSA"   -> crt.keyType = "RSA" /\ key.pub = crt.pub
    [] key.type = "ECDSA" -> crt.keyType = "ECDSA" /\ key.pub = crt.pub
    [] OTHER -> FALSE

\* util.ParsePrivateSigner on a key file of the given container format
ParsePrivateSigner(file, password) ==
  LET fail == [err |-> TRUE, key |-> NoKey]
      good == [err |-> FALSE, key |-> file.key]
  IN CASE ~file.readable -> fail
       [] file.format \in {"legacy", "pkcs8enc"} ->
            IF password = "" \/ password # file.pw THEN fail ELSE good
       [] file.format = "pkcs8" -> IF password # "" THEN fail ELSE good
       [] file.format = "traditional" -> good
       [] OTHER -> fail

(* ------------------------- encoded structures ------------------------- *)

\* a time.Time: the instant in UTC, as the days since 1 January of year 1,
\* the seconds of the day and the nanoseconds of the second
Instant(day, sec, nsec) == [day |-> day, sec |-> sec, nsec |-> nsec]

\* time.Time{}: the zero time, 1 January of year 1 at 00:00:00 UTC, as
\* ParseTime("") returns it; IsZero holds of this instant alone
ZeroTime == Instant(0, 0, 0)

IsLeap(year) == year % 4 = 0 /\ (year % 100 # 0 \/ year % 400 = 0)

DaysIn(month, year) ==
  IF month = 2 THEN (IF IsLeap(year) THEN 29 ELSE 28)
  ELSE IF month \in {4, 6, 9, 11} THEN 30 ELSE 31

\* the days of a year before the first of each month, leap day aside
DaysBefore == <<0, 31, 59, 90, 120, 151, 181, 212, 243, 273, 304, 334>>

\* the days from 1 January of year 1 to the given day
DayNumber(year, month, day) ==
  365 * (year - 1) + ((year - 1) \div 4) - ((year - 1) \div 100) + ((year - 1) \div 400)
  + DaysBefore[month] + (IF month > 2 /\ IsLeap(year) THEN 1 ELSE 0) + day - 1

\* time.Date(year, month, day, hour, min, sec, nsec, UTC) moved back by the
\* offset of the zone the text names, in seconds
Date(year, month, day, hour, min, sec, nsec, zoneOffset) ==
  LET secs == hour * 3600 + min * 60 + sec - zoneOffset
  IN Instant(DayNumber(year, month, day) + (secs \div 86400), secs % 86400, nsec)

\* Time.Before
Before(t, u) ==
  \/ t.day < u.day
  \/ t.day = u.day /\ t.sec < u.sec
  \/ t.day = u.day /\ t.sec = u.sec /\ t.nsec < u.nsec

\* a time as DER holds it (UTCTime, GeneralizedTime): whole seconds
DERTime(t) == [t EXCEPT !.nsec = 0]

\* the to-be-signed part of a list: TBSCertList
TBSCertList(sigAlg, crt, thisUpdate, nextUpdate, revoked, number) ==
  <<"tbs", X509AlgorithmIdentifier(sigAlg), crt.subject, DERTime(thisUpdate),
    DERTime(nextUpdate),
    [k \in 1..Len(revoked) |-> [revoked[k] EXCEPT !.time = DERTime(@)]],
    crt.ski, number>>

\* the signature value a signer produces over a to-be-signed body; nonce is
\* what the signer draws from rand.Reader
Signature(key, sigAlg, tbs, nonce) == <<"sig", key.pub, sigAlg, nonce, tbs>>

\* x509.CreateRevocationList(rand.Reader, template, issuer, priv): the DER of
\* CertificateList, the concatenation of its three fields.  It refuses an
\* issuer without the crlSign key usage or without a subject key identifier,
\* a NextUpdate before ThisUpdate, a signature algorithm that is not the
\* key's, an entry whose RevocationTime is the zero time, a number of more
\* than 20 octets, and a time DER has no form for (years 0 to 9999).
CreateRevocationList(template, crt, key, nonce) ==
  LET params == SigningAlgForKey(key, template.SignatureAlgorithm)
      tbs    == TBSCertList(params.sigAlg, crt, template.ThisUpdate, template.NextUpdate,
                            template.RevokedCertificateEntries, template.Number)
      times  == {template.ThisUpdate, template.NextUpdate}
                  \cup {template.RevokedCertificateEntries[k].time :
                          k \in 1..Len(template.RevokedCertificateEntries)}
      octets == template.Number.abs
  IN IF \/ ~crt.crlSign
        \/ crt.ski = ""
        \/ Before(template.NextUpdate, template.ThisUpdate)
        \/ params.err
        \/ \E k \in 1..Len(template.RevokedCertificateEntries) :
              template.RevokedCertificateEntries[k].time = ZeroTime
        \/ Len(octets) > 20
        \/ Len(octets) = 20 /\ octets[20] >= 128
        \/ \E t \in times : t.day < DayNumber(0, 1, 1) \/ t.day > DayNumber(9999, 12, 31)
     THEN [err |-> TRUE, der |-> <<>>]
     ELSE [err |-> FALSE,
           der |-> <<tbs, X509AlgorithmIdentifier(params.sigAlg),
                     Signature(key, params.sigAlg, tbs, nonce)>>]

\* ExtractTBS handing back the whole list
ExtractTBSWhole(crl) ==
  IF Len(crl) = 0 THEN [err |-> TRUE, tbs |-> <<>>] ELSE [err |-> FALSE, tbs |-> crl]

\* util.ExtractTBS: the first field of the encoded list, verbatim
ExtractTBS(crl) ==
  IF Len(crl) = 0 THEN [err |-> TRUE, tbs |-> <<>>] ELSE [err |-> FALSE, tbs |-> <<crl[1]>>]

\* the value of a hash function on a byte string
HashOf(h, data) == <<"hash", h, data>>

\* hash.Hash.Sum(b) on a hash that was written nothing: b followed by the
\* hash of the empty input
FreshHashSum(h, b) == b \o <<HashOf(h, <<>>)>>

\* what a run leaves in a destination: nothing, or the data written, which is
\* the bytes themselves or a PEM block of the given type holding them
NoOutput == [written |-> FALSE, pem |-> "", bytes |-> <<>>]

OutData(pemType, bytes) == [written |-> TRUE, pem |-> pemType, bytes |-> bytes]

\* WriteCRL printing whatever it is given when there is no path
WriteCRLPrintsDER(path, crl, encodeAsPEM, failing) ==
  LET outData == OutData(IF encodeAsPEM THEN "X509 CRL" ELSE "", crl)
  IN IF path = "" THEN [err |-> FALSE, file |-> NoOutput, stdout |-> outData]
     ELSE IF failing THEN [err |-> TRUE, file |-> NoOutput, stdout |-> NoOutput]
          ELSE [err |-> FALSE, file |-> outData, stdout |-> NoOutput]

\* util.WriteCRL(path, crl, encodeAsPEM); failing: os.WriteFile fails
WriteCRL(path, crl, encodeAsPEM, failing) ==
  LET outData == OutData(IF encodeAsPEM THEN "X509 CRL" ELSE "", crl)
  IN IF path = ""
     THEN IF ~encodeAsPEM THEN [err |-> TRUE, file |-> NoOutput, stdout |-> NoOutput]
          ELSE [err |-> FALSE, file |-> NoOutput, stdout |-> outData]
     ELSE IF failing THEN [err |-> TRUE, file |-> NoOutput, stdout |-> NoOutput]
          ELSE [err |-> FALSE, file |-> outData, stdout |-> NoOutput]

\* util.WriteDigest(path, crl, encodeAsPEM)
WriteDigest(path, crl, encodeAsPEM, failing) ==
  LET outData == OutData(IF encodeAsPEM THEN "X509 CRL DIGEST" ELSE "", crl)
  IN IF path = ""
     THEN IF ~encodeAsPEM THEN [err |-> TRUE, file |-> NoOutput, stdout |-> NoOutput]
          ELSE [err |-> FALSE, file |-> NoOutput, stdout |-> outData]
     ELSE IF failing THEN [err |-> TRUE, file |-> NoOutput, stdout |-> NoOutput]
          ELSE [err |-> FALSE, file |-> outData, stdout |-> NoOutput]

(* ------------------------------ CreateCRL ----------------------------- *)

\* the result of a CreateCRL that returns an error before writing anything
CreateFailed == [err |-> TRUE, out |-> NoOutput, digest |-> NoOutput, stdout |-> <<>>]

Printed(w) == IF w.stdout.written THEN <<w.stdout>> ELSE <<>>

\* the template CreateCRL hands to x509.CreateRevocationList
CRLTemplate(crt, params) ==
  LET thisUpdate == IF params.ThisUpdate = ZeroTime THEN crt.notBefore ELSE params.ThisUpdate
      nextUpdate == IF params.NextUpdate = ZeroTime THEN crt.notAfter ELSE params.NextUpdate
  IN [Number                    |-> params.CRLNumber,
      SignatureAlgorithm        |-> crt.sigAlg,
      RevokedCertificateEntries |-> RevokedCerts(params.Entries, params.SerialsInclude,
                                                 params.SerialsIgnore, thisUpdate),
      ThisUpdate                |-> thisUpdate,
      NextUpdate                |-> nextUpdate]

\* the tail of CreateCRL in TBS mode: the body is cut out of the list, the
\* digest is computed as h.Sum(crl) and written, then the body is written
CreateTBS(crt, crl, params, env) ==
  LET x  == ExtractTBS(crl)
      sh == GetSignatureAlgAndHash(crt)
      wd == WriteDigest(params.DigestPath, FreshHashSum(sh.hash, x.tbs), FALSE, env.digestFails)
      wc == WriteCRL(params.OutPath, x.tbs, params.OutPEM, env.outFails)
  IN IF x.err \/ sh.err \/ wd.err THEN CreateFailed
     ELSE [err |-> wc.err, out |-> wc.file, digest |-> wd.file,
           stdout |-> Printed(wd) \o Printed(wc)]

\* crl.CreateCRL(crt, key, params).  env is what the run draws from outside:
\* the throwaway key (fresh), the signer's randomness (nonce), and whether
\* writing a destination fails.
CreateCRL(crt, key, params, env) ==
  LET dummy  == DummySigner(crt, env.fresh)
      signer == IF params.TBS THEN dummy.key ELSE key
      made   == CreateRevocationList(CRLTemplate(crt, params), crt, signer, env.nonce)
      wc     == WriteCRL(params.OutPath, made.der, params.OutPEM, env.outFails)
  IN IF ~params.OutPEM /\ params.OutPath = "" THEN CreateFailed
     ELSE IF params.TBS /\ dummy.err THEN CreateFailed
     ELSE IF signer = NoKey THEN CreateFailed
     ELSE IF made.err THEN CreateFailed
     ELSE IF params.TBS THEN CreateTBS(crt, made.der, params, env)
     ELSE [err |-> wc.err, out |-> wc.file, digest |-> NoOutput, stdout |-> Printed(wc)]

(* ----------------------------- AssembleCRL ---------------------------- *)

\* AssembleCRL without the test of the signature's length
AssembleCRLUnchecked(crt, tbs, signature, outPath, outPEM, failing) ==
  LET sa == GetSignatureAlgAndHash(crt)
      wc == WriteCRL(outPath, tbs \o <<AlgId(sa.oid, sa.params)>> \o signature, outPEM, failing)
  IN IF sa.err
     THEN [err |-> TRUE, out |-> NoOutput, stdout |-> <<>>]
     ELSE [err |-> wc.err, out |-> wc.file, stdout |-> Printed(wc)]

\* crl.AssembleCRL(crt, tbs, signature, params): the body, the algorithm
\* identifier of the issuer certificate's signature algorithm, the signature
AssembleCRL(crt, tbs, signature, outPath, outPEM, failing) ==
  LET sa == GetSignatureAlgAndHash(crt)
      wc == WriteCRL(outPath, tbs \o <<AlgId(sa.oid, sa.params)>> \o signature, outPEM, failing)
  IN IF sa.err \/ Len(signature) = 0
     THEN [err |-> TRUE, out |-> NoOutput, stdout |-> <<>>]
     ELSE [err |-> wc.err, out |-> wc.file, stdout |-> Printed(wc)]

(* ------------------------------ arguments ----------------------------- *)

\* time.Parse reads a text against a layout, element by element.  A layout
\* is the sequence of its elements: "2006" year, "01" month, "02" day, "15"
\* hour, "04" minute, "05" second, "Z07:00" zone, and literal characters.

\* isDigit(s, i): s has a character at place i and it is a decimal digit
IsDigit(s, i) == i <= Len(s) /\ IsIn(s[i], DecChars)

Drop(s, n) == SubSeq(s, n + 1, Len(s))

\* getnum(s, fixed): one or two leading digits, two when fixed
GetNum(s, fixed) ==
  IF ~IsDigit(s, 1) THEN [err |-> TRUE, n |-> 0, rest |-> s]
  ELSE IF ~IsDigit(s, 2)
       THEN IF fixed THEN [err |-> TRUE, n |-> 0, rest |-> s]
            ELSE [err |-> FALSE, n |-> DigitVal(s[1]), rest |-> Drop(s, 1)]
  ELSE [err |-> FALSE, n |-> DigitVal(s[1]) * 10 + DigitVal(s[2]), rest |-> Drop(s, 2)]

\* cutspace: the leading blanks are dropped
RECURSIVE CutSpace(_)
CutSpace(s) == IF s # <<>> /\ Head(s) = " " THEN CutSpace(Tail(s)) ELSE s

\* skip(value, prefix) for a literal of one character: a blank of the layout
\* stands for any run of blanks of the text, any other character for itself
Skip(value, c) ==
  IF c = " "
  THEN IF value # <<>> /\ Head(value) # " " THEN [err |-> TRUE, rest |-> value]
       ELSE [err |-> FALSE, rest |-> CutSpace(value)]
  ELSE IF value = <<>> \/ Head(value) # c THEN [err |-> TRUE, rest |-> value]
       ELSE [err |-> FALSE, rest |-> Tail(value)]

\* the number of digits at the head of a text
RECURSIVE LeadingDigits(_)
LeadingDigits(s) == IF IsDigit(s, 1) THEN 1 + LeadingDigits(Tail(s)) ELSE 0

\* parseNanoseconds on a separator followed by n digits: the first nine
\* digits count, as a fraction of a second
Nanoseconds(digits) ==
  LET kept == SubSeq(digits, 1, IF Len(digits) > 9 THEN 9 ELSE Len(digits))
  IN DigitsValue(kept, 10) * 10^(9 - Len(kept))

ParseFailed(value, f) == [err |-> TRUE, rest |-> value, f |-> f]

\* the zone element: Z, or a sign, two digits, a colon and two digits; hours
\* up to 24 and minutes up to 60 pass
ParseZone(value, f) ==
  IF value # <<>> /\ Head(value) = "Z" THEN [err |-> FALSE, rest |-> Tail(value), f |-> f]
  ELSE IF Len(value) < 6 \/ value[4] # ":" THEN ParseFailed(value, f)
  ELSE LET hr == GetNum(SubSeq(value, 2, 3), TRUE)
           mm == GetNum(SubSeq(value, 5, 6), TRUE)
           off == (hr.n * 60 + mm.n) * 60
       IN IF hr.err \/ mm.err \/ hr.n > 24 \/ mm.n > 60 \/ value[1] \notin {"+", "-"}
          THEN ParseFailed(value, f)
          ELSE [err |-> FALSE, rest |-> Drop(value, 6),
                f |-> [f EXCEPT !.zoneOffset = IF value[1] = "-" THEN 0 - off ELSE off]]

\* the seconds element: two digits below 60, and after them a fraction the
\* layout does not name: a period or comma and one or more digits
ParseSeconds(value, f) ==
  LET g == GetNum(value, TRUE)
      n == LeadingDigits(Drop(g.rest, 1))
  IN IF g.err \/ g.n >= 60 THEN ParseFailed(value, f)
     ELSE IF Len(g.rest) >= 2 /\ g.rest[1] \in {".", ","} /\ IsDigit(g.rest, 2)
          THEN [err |-> FALSE, rest |-> Drop(g.rest, 1 + n),
                f |-> [f EXCEPT !.sec = g.n, !.nsec = Nanoseconds(SubSeq(g.rest, 2, 1 + n))]]
          ELSE [err |-> FALSE, rest |-> g.rest, f |-> [f EXCEPT !.sec = g.n]]

\* one element of a layout read off the head of the text
ParseElement(std, value, f) ==
  CASE std = "2006" ->
         IF Len(value) < 4 \/ \E i \in 1..4 : ~IsDigit(value, i) THEN ParseFailed(value, f)
         ELSE [err |-> FALSE, rest |-> Drop(value, 4),
               f |-> [f EXCEPT !.year = DigitsValue(SubSeq(value, 1, 4), 10)]]
    [] std = "01" ->
         LET g == GetNum(value, TRUE)
         IN IF g.err \/ g.n <= 0 \/ 12 < g.n THEN ParseFailed(value, f)
            ELSE [err |-> FALSE, rest |-> g.rest, f |-> [f EXCEPT !.month = g.n]]
    [] std = "02" ->
         LET g == GetNum(value, TRUE)
         IN IF g.err THEN ParseFailed(value, f)
            ELSE [err |-> FALSE, rest |-> g.rest, f |-> [f EXCEPT !.day = g.n]]
    [] std = "15" ->
         LET g == GetNum(value, FALSE)
         IN IF g.err \/ 24 <= g.n THEN ParseFailed(value, f)
            ELSE [err |-> FALSE, rest |-> g.rest, f |-> [f EXCEPT !.hour = g.n]]
    [] std = "04" ->
         LET g == GetNum(value, TRUE)
         IN IF g.err \/ 60 <= g.n THEN ParseFailed(value, f)
            ELSE [err |-> FALSE, rest |-> g.rest, f |-> [f EXCEPT !.min = g.n]]
    [] std = "05" -> ParseSeconds(value, f)
    [] std = "Z07:00" -> ParseZone(value, f)
    [] OTHER ->
         LET k == Skip(value, std)
         IN IF k.err THEN ParseFailed(value, f) ELSE [err |-> FALSE, rest |-> k.rest, f |-> f]

\* time.Parse(layout, value): every element is read in turn, nothing of the
\* text may be left, and the day must exist in its month
RECURSIVE Parse(_, _, _)
Parse(layout, value, f) ==
  IF layout = <<>>
  THEN IF value # <<>> \/ f.day < 1 \/ f.day > DaysIn(f.month, f.year)
       THEN [err |-> TRUE, t |-> ZeroTime]
       ELSE [err |-> FALSE,
             t |-> Date(f.year, f.month, f.day, f.hour, f.min, f.sec, f.nsec, f.zoneOffset)]
  ELSE LET r == ParseElement(Head(layout), value, f)
       IN IF r.err THEN [err |-> TRUE, t |-> ZeroTime] ELSE Parse(Tail(layout), r.rest, r.f)

\* time.RFC3339, "2006-01-02 15:04:05", "2006-01-02 15:04", "2006-01-02"
Layouts ==
  << <<"2006", "-", "01", "-", "02", "T", "15", ":", "04", ":", "05", "Z07:00">>,
     <<"2006", "-", "01", "-", "02", " ", "15", ":", "04", ":", "05">>,
     <<"2006", "-", "01", "-", "02", " ", "15", ":", "04">>,
     <<"2006", "-", "01", "-", "02">> >>

\* util.ParseTime: "" is the zero time; else the layouts are tried in order
\* and the first that parses the text wins
RECURSIVE ParseTimeLoop(_, _)
ParseTimeLoop(layouts, timeStr) ==
  IF layouts = <<>> THEN [err |-> TRUE, t |-> ZeroTime]
  ELSE LET r == Parse(Head(layouts), timeStr,
                     [year |-> 0, month |-> 1, day |-> 1, hour |-> 0, min |-> 0,
                      sec |-> 0, nsec |-> 0, zoneOffset |-> 0])
       IN IF ~r.err THEN r ELSE ParseTimeLoop(Tail(layouts), timeStr)

ParseTime(timeStr) ==
  IF timeStr = <<>> THEN [err |-> FALSE, t |-> ZeroTime] ELSE ParseTimeLoop(Layouts, timeStr)

\* ResolveNumber with the branches in the other order: a number found in the
\* prior CRLs wins over --number
ResolveNumberPriorWins(numberStr, highest) ==
  IF Cmp(highest, NewInt(-1)) # 0 THEN Add(highest, NewInt(1))
  ELSE IF numberStr # <<>> THEN SetString(numberStr, 10).val
  ELSE NewInt(1)

\* ResolveNumber starting over at 1 whenever no number is given
ResolveNumberRestarts(numberStr, highest) ==
  IF numberStr # <<>> THEN SetString(numberStr, 10).val
  ELSE NewInt(1)

\* cmdCreate's choice of the CRL number: the explicit one, else 1 when no
\* prior CRL gave a number, else the highest plus one
ResolveNumber(numberStr, highest) ==
  IF numberStr # <<>> THEN SetString(numberStr, 10).val
  ELSE IF Cmp(highest, NewInt(-1)) = 0 THEN NewInt(1)
  ELSE Add(highest, NewInt(1))

(* ------------------------- the create command ------------------------ *)

VARIABLES
  args,            \* the command line: the flags of `create` and the global flags
  disk,            \* the files the flags name, and what is typed at the prompt
  env,             \* what the run draws: randomness, failing writes
  pc,              \* the statement of cmdCreate the run is at
  serialsInclude,  \* cmdCreate's locals
  serialsIgnore,
  crt,
  key,
  password,
  updateThis,
  updateNext,
  crlNumber,
  entries,
  out,             \* what the run wrote to the --out path
  digest,          \* what the run wrote to the --digest path
  stdout,          \* what the run printed, in order
  exit,            \* "" while running, "ok", "panic" or the fatal error
  calls,           \* the helpers called so far, in order
  builder          \* the run of the build helper (src/builder), a program of its own

cmdVars == <<args, disk, env, pc, serialsInclude, serialsIgnore, crt, key, password,
             updateThis, updateNext, crlNumber, entries, out, digest, stdout, exit, calls>>

vars == <<args, disk, env, pc, serialsInclude, serialsIgnore, crt, key, password,
          updateThis, updateNext, crlNumber, entries, out, digest, stdout, exit, calls,
          builder>>

\* the build helper is not running
NoBuilder ==
  [pc |-> "none", name |-> <<>>, out |-> <<>>, all |-> FALSE, targets |-> <<>>,
   release |-> FALSE, versionFlag |-> <<>>, versionFile |-> [readable |-> FALSE, text |-> <<>>],
   failStep |-> "none", distDir |-> <<>>, buildTargets |-> <<>>, version |-> <<>>,
   stage |-> <<>>, dirs |-> {}, binaries |-> {}, archives |-> {}, printed |-> {},
   code |-> -1, stderr |-> <<>>, stdout |-> <<>>]

NoCert == [sigAlg |-> "UnknownSignatureAlgorithm", keyType |-> "none", pub |-> 0,
           notBefore |-> ZeroTime, notAfter |-> ZeroTime, subject |-> "", ski |-> "",
           crlSign |-> FALSE]

\* cmdCreate returns cli.Exit(msg, 1): nothing else happens in the run
Fatal(msg) ==
  /\ pc' = "exit"
  /\ exit' = msg

\* the run goes on to the statement at next
Goto(next) ==
  /\ pc' = next
  /\ exit' = exit

\* the Validator of --number, --this-update and --next-update, run while the
\* command line is parsed and before cmdCreate
ParseFlags ==
  /\ pc = "flags"
  /\ IF args.number # <<>> /\ ~SetString(args.number, 10).ok
       THEN Fatal("invalid CRL number, must be a valid decimal number")
     ELSE IF ParseTime(args.thisUpdate).err
       THEN Fatal("invalid time format for --this-update/-t")
     ELSE IF ParseTime(args.nextUpdate).err
       THEN Fatal("invalid time format for --next-update/-n")
     ELSE Goto("checkTBS")
  /\ UNCHANGED <<builder, args, disk, env, serialsInclude, serialsIgnore, crt, key, password,
                 updateThis, updateNext, crlNumber, entries, out, digest, stdout, calls>>

\* cmdCreate: TBS output needs a digest destination
CheckTBS ==
  /\ pc = "checkTBS"
  /\ IF args.tbs /\ args.digest = ""
       THEN Fatal("target digest path must be specified when creating a TBS CRL")
       ELSE Goto("readSerials")
  /\ UNCHANGED <<builder, args, disk, env, serialsInclude, serialsIgnore, crt, key, password,
                 updateThis, updateNext, crlNumber, entries, out, digest, stdout, calls>>

\* cmdCreate: the include list
ReadSerials ==
  /\ pc = "readSerials"
  /\ LET r == ReadSerialNumbersFromFile(args.serials, disk.serials)
     IN /\ IF args.serials # "" /\ r.err
             THEN Fatal("failed to read serials file") ELSE Goto("readIgnore")
        /\ serialsInclude' = IF args.serials # "" /\ ~r.err THEN r.serials ELSE <<>>
        /\ calls' = IF args.serials # ""
                      THEN Append(calls, "ReadSerialNumbersFromFile") ELSE calls
  /\ UNCHANGED <<builder, args, disk, env, serialsIgnore, crt, key, password,
                 updateThis, updateNext, crlNumber, entries, out, digest, stdout>>

\* cmdCreate: the ignore list
ReadIgnore ==
  /\ pc = "readIgnore"
  /\ LET r == ReadSerialNumbersFromFile(args.ignore, disk.ignore)
     IN /\ IF args.ignore # "" /\ r.err
             THEN Fatal("failed to read ignore file") ELSE Goto("checkPaths")
        /\ serialsIgnore' = IF args.ignore # "" /\ ~r.err THEN r.serials ELSE <<>>
        /\ calls' = IF args.ignore # ""
                      THEN Append(calls, "ReadSerialNumbersFromFile") ELSE calls
  /\ UNCHANGED <<builder, args, disk, env, serialsInclude, crt, key, password,
                 updateThis, updateNext, crlNumber, entries, out, digest, stdout>>

\* CheckPaths without the two tests of --key against the mode
CheckPathsKeyUnchecked ==
  /\ pc = "checkPaths"
  /\ IF args.crt = ""
       THEN Fatal("issuer certificate path must be specified with --crt/-c")
       ELSE Goto("parseCrt")
  /\ UNCHANGED <<builder, args, disk, env, serialsInclude, serialsIgnore, crt, key, password,
                 updateThis, updateNext, crlNumber, entries, out, digest, stdout, calls>>

\* cmdCreate: which of --crt and --key the mode needs and forbids
CheckPaths ==
  /\ pc = "checkPaths"
  /\ IF args.tbs /\ args.key # ""
       THEN Fatal("issuer private key should not be specified when creating a TBS CRL")
     ELSE IF args.crt = ""
       THEN Fatal("issuer certificate path must be specified with --crt/-c")
     ELSE IF ~args.tbs /\ args.key = ""
       THEN Fatal("issuer private key path must be specified with --key/-k")
     ELSE Goto("parseCrt")
  /\ UNCHANGED <<builder, args, disk, env, serialsInclude, serialsIgnore, crt, key, password,
                 updateThis, updateNext, crlNumber, entries, out, digest, stdout, calls>>

\* cmdCreate: util.ParseCertificate(issuerCrtPath)
ParseCrt ==
  /\ pc = "parseCrt"
  /\ IF disk.crt.readable /\ disk.crt.parses
       THEN Goto("password") /\ crt' = disk.crt.cert
       ELSE Fatal("failed to parse issuer certificate") /\ crt' = crt
  /\ calls' = Append(calls, "ParseCertificate")
  /\ UNCHANGED <<builder, args, disk, env, serialsInclude, serialsIgnore, key, password,
                 updateThis, updateNext, crlNumber, entries, out, digest, stdout>>

\* cmdCreate: the password, from the flag or typed at the prompt; neither is
\* allowed with TBS output
Password ==
  /\ pc = "password"
  /\ IF args.tbs /\ (args.password # "" \/ args.passwordPrompt)
       THEN /\ Fatal("password should not be specified when creating a TBS CRL")
            /\ UNCHANGED <<password, stdout, calls>>
     ELSE IF args.passwordPrompt
       THEN /\ IF disk.typed.err THEN Fatal("failed to read private key password")
                                 ELSE Goto("loadKey")
            /\ password' = IF disk.typed.err THEN "" ELSE disk.typed.text
            /\ stdout' = Append(stdout, OutData("prompt", <<>>))
            /\ calls' = Append(calls, "PromptPassword")
     ELSE /\ Goto("loadKey")
          /\ password' = IF args.tbs THEN "" ELSE args.password
          /\ UNCHANGED <<stdout, calls>>
  /\ UNCHANGED <<builder, args, disk, env, serialsInclude, serialsIgnore, crt, key,
                 updateThis, updateNext, crlNumber, entries, out, digest>>

\* LoadKey without the comparison of the key with the certificate
LoadKeyUnverified ==
  /\ pc = "loadKey"
  /\ IF args.tbs
       THEN Goto("parseTimes") /\ UNCHANGED <<key, calls>>
       ELSE LET r == ParsePrivateSigner(disk.key, password)
            IN IF r.err
                 THEN /\ Fatal("failed to parse issuer private key")
                      /\ key' = key
                      /\ calls' = Append(calls, "ParsePrivateSigner")
                 ELSE /\ key' = r.key
                      /\ calls' = Append(calls, "ParsePrivateSigner")
                      /\ Goto("parseTimes")
  /\ UNCHANGED <<builder, args, disk, env, serialsInclude, serialsIgnore, crt, password,
                 updateThis, updateNext, crlNumber, entries, out, digest, stdout>>

\* LoadKey without the test of the mode: the key is loaded in TBS mode too
LoadKeyInEveryMode ==
  /\ pc = "loadKey"
  /\ LET r == ParsePrivateSigner(disk.key, password)
     IN IF r.err
          THEN /\ Fatal("failed to parse issuer private key")
               /\ key' = key
               /\ calls' = Append(calls, "ParsePrivateSigner")
          ELSE /\ key' = r.key
               /\ calls' = calls \o <<"ParsePrivateSigner", "VerifyCrtKeyMatch">>
               /\ IF VerifyCrtKeyMatch(crt, r.key) THEN Goto("parseTimes")
                  ELSE Fatal("issuer certificate and private key do not match")
  /\ UNCHANGED <<builder, args, disk, env, serialsInclude, serialsIgnore, crt, password,
                 updateThis, updateNext, crlNumber, entries, out, digest, stdout>>

\* cmdCreate: in signed mode the key is loaded and compared with the certificate
LoadKey ==
  /\ pc = "loadKey"
  /\ IF args.tbs
       THEN Goto("parseTimes") /\ UNCHANGED <<key, calls>>
       ELSE LET r == ParsePrivateSigner(disk.key, password)
            IN IF r.err
                 THEN /\ Fatal("failed to parse issuer private key")
                      /\ key' = key
                      /\ calls' = Append(calls, "ParsePrivateSigner")
                 ELSE /\ key' = r.key
                      /\ calls' = calls \o <<"ParsePrivateSigner", "VerifyCrtKeyMatch">>
                      /\ IF VerifyCrtKeyMatch(crt, r.key) THEN Goto("parseTimes")
                         ELSE Fatal("issuer certificate and private key do not match")
  /\ UNCHANGED <<builder, args, disk, env, serialsInclude, serialsIgnore, crt, password,
                 updateThis, updateNext, crlNumber, entries, out, digest, stdout>>

\* cmdCreate: --this-update and --next-update
ParseTimes ==
  /\ pc = "parseTimes"
  /\ LET t == ParseTime(args.thisUpdate)
         n == ParseTime(args.nextUpdate)
     IN /\ IF t.err THEN Fatal("failed to parse this-update time")
           ELSE IF n.err THEN Fatal("failed to parse next-update time")
           ELSE Goto("extract")
        /\ updateThis' = t.t
        /\ updateNext' = IF t.err THEN updateNext ELSE n.t
        /\ calls' = calls \o (IF t.err THEN <<"ParseTime">> ELSE <<"ParseTime", "ParseTime">>)
  /\ UNCHANGED <<builder, args, disk, env, serialsInclude, serialsIgnore, crt, key, password,
                 crlNumber, entries, out, digest, stdout>>

\* cmdCreate: the prior CRLs are merged
Extract ==
  /\ pc = "extract"
  /\ LET r == ExtractRevocationEntries(serialsIgnore, disk.crls)
     IN /\ IF r.panic THEN pc' = "exit" /\ exit' = "panic" ELSE Goto("number")
        /\ crlNumber' = IF r.panic THEN crlNumber ELSE r.number
        /\ entries' = IF r.panic THEN entries ELSE r.entries
  /\ calls' = Append(calls, "ExtractRevocationEntries")
  /\ UNCHANGED <<builder, args, disk, env, serialsInclude, serialsIgnore, crt, key, password,
                 updateThis, updateNext, out, digest, stdout>>

\* cmdCreate: the CRL number
Number ==
  /\ pc = "number"
  /\ crlNumber' = ResolveNumber(args.number, crlNumber)
  /\ Goto("create")
  /\ UNCHANGED <<builder, args, disk, env, serialsInclude, serialsIgnore, crt, key, password,
                 updateThis, updateNext, entries, out, digest, stdout, calls>>

\* the CreateCRLParams cmdCreate passes
CreateParams ==
  [SerialsInclude |-> serialsInclude, SerialsIgnore |-> serialsIgnore,
   Entries |-> entries, TBS |-> args.tbs, DigestPath |-> args.digest,
   OutPath |-> args.out, OutPEM |-> args.pem, CRLNumber |-> crlNumber,
   ThisUpdate |-> updateThis, NextUpdate |-> updateNext]

\* cmdCreate: the list is built and written
Create ==
  /\ pc = "create"
  /\ LET r == CreateCRL(crt, key, CreateParams, env)
     IN /\ out' = r.out
        /\ digest' = r.digest
        /\ stdout' = stdout \o r.stdout
        /\ exit' = IF r.err THEN "failed to create CRL" ELSE "ok"
  /\ pc' = "exit"
  /\ calls' = Append(calls, "CreateCRL")
  /\ UNCHANGED <<builder, args, disk, env, serialsInclude, serialsIgnore, crt, key, password,
                 updateThis, updateNext, crlNumber, entries>>

Next ==
  \/ ParseFlags
  \/ CheckTBS
  \/ ReadSerials
  \/ ReadIgnore
  \/ CheckPaths
  \/ ParseCrt
  \/ Password
  \/ LoadKey
  \/ ParseTimes
  \/ Extract
  \/ Number
  \/ Create

(* ------------------------ the assemble command ----------------------- *)

\* util.TryParsePEM: the content of a file is a sequence of chunks, and a
\* chunk <<"pem", payload>> is a PEM block holding the payload.  pem.Decode
\* finds the first block wherever it stands in the content, and the block's
\* payload is returned; content with no block is returned as it is
TryParsePEM(file) ==
  LET blocks == SelectSeq(file.bytes, LAMBDA chunk : chunk[1] = "pem")
  IN IF ~file.readable THEN [err |-> TRUE, Bytes |-> <<>>]
     ELSE IF blocks # <<>> THEN [err |-> FALSE, Bytes |-> Head(blocks)[2]]
     ELSE [err |-> FALSE, Bytes |-> file.bytes]

\* util.ParseTBSCRL: the first ASN.1 element of what TryParsePEM returns,
\* whatever follows it
ParseTBSCRL(file) ==
  LET block == TryParsePEM(file)
  IN IF block.err \/ block.Bytes = <<>> \/ Head(block.Bytes) = <<"junk">>
     THEN [err |-> TRUE, tbs |-> <<>>]
     ELSE [err |-> FALSE, tbs |-> <<Head(block.Bytes)>>]

\* the base64 text of a byte string, as one chunk of a file's content
Base64(bytes) == <<"b64", bytes>>

\* ReadSignatureFile without the attempt to decode base64
ReadSignatureFileRaw(file) ==
  LET block == TryParsePEM(file)
  IN [err |-> block.err, signature |-> block.Bytes]

\* util.ReadSignatureFile: TryParsePEM first, so that of a file holding a PEM
\* block only the block's payload is looked at; then bytes that decode as
\* base64 are decoded (no bytes decode to none), and any other bytes are the
\* signature
ReadSignatureFile(file) ==
  LET block == TryParsePEM(file)
  IN IF block.err THEN [err |-> TRUE, signature |-> <<>>]
     ELSE IF Len(block.Bytes) = 1 /\ Head(block.Bytes)[1] = "b64"
       THEN [err |-> FALSE, signature |-> Head(block.Bytes)[2]]
     ELSE [err |-> FALSE, signature |-> block.Bytes]

\* cmdAssemble from its first statement to its return: the error it returns
\* ("ok" for nil), the certificate it parsed, what it wrote and printed, and
\* the helpers it called
AssembleRun(a, d, e) ==
  LET tbs  == ParseTBSCRL(d.tbs)
      sig  == ReadSignatureFile(d.signature)
      cert == IF d.crt.readable /\ d.crt.parses THEN d.crt.cert ELSE NoCert
      r    == AssembleCRL(cert, tbs.tbs, sig.signature, a.out, a.pem, e.outFails)
      stop(msg, c, called) ==
        [exit |-> msg, crt |-> c, out |-> NoOutput, stdout |-> <<>>, calls |-> called]
  IN IF a.tbsPath = ""
       THEN stop("TBS CRL path must be specified with --to-be-signed/-t", NoCert, <<>>)
     ELSE IF tbs.err
       THEN stop("failed to parse TBS CRL", NoCert, <<"ParseTBSCRL">>)
     ELSE IF a.signature = ""
       THEN stop("signature path must be specified with --signature/-s", NoCert,
                 <<"ParseTBSCRL">>)
     ELSE IF sig.err
       THEN stop("failed to read signature file", NoCert,
                 <<"ParseTBSCRL", "ReadSignatureFile">>)
     ELSE IF a.crt = ""
       THEN stop("issuer certificate path must be specified with --crt/-c", NoCert,
                 <<"ParseTBSCRL", "ReadSignatureFile">>)
     ELSE IF cert = NoCert
       THEN stop("failed to parse issuer certificate", NoCert,
                 <<"ParseTBSCRL", "ReadSignatureFile", "ParseCertificate">>)
     ELSE [exit   |-> IF r.err THEN "failed to assemble CRL" ELSE "ok",
           crt    |-> cert,
           out    |-> r.out,
           stdout |-> r.stdout,
           calls  |-> <<"ParseTBSCRL", "ReadSignatureFile", "ParseCertificate", "AssembleCRL">>]

\* the assemble command
CmdAssemble ==
  /\ pc = "assemble"
  /\ LET r == AssembleRun(args, disk, env)
     IN /\ exit' = r.exit
        /\ crt' = r.crt
        /\ out' = r.out
        /\ stdout' = stdout \o r.stdout
        /\ calls' = calls \o r.calls
  /\ pc' = "exit"
  /\ UNCHANGED <<builder, args, disk, env, serialsInclude, serialsIgnore, key, password,
                 updateThis, updateNext, crlNumber, entries, digest>>

\* a run of either command
Run == Next \/ CmdAssemble

(* ------------------------------ lineage ------------------------------- *)

\* x509.ParseRevocationList on the bytes of a file: a CertificateList is a
\* body, an algorithm identifier and the bytes of the signature, whatever
\* they are; the identifier must be the one the body names.  The number and
\* the entries are those of the body
ParseRevocationList(bytes) ==
  IF /\ Len(bytes) >= 2
     /\ bytes[1][1] = "tbs"
     /\ bytes[2][1] = "alg"
     /\ bytes[2] = bytes[1][2]
  THEN [err |-> FALSE, number |-> bytes[1][8], entries |-> bytes[1][6]]
  ELSE [err |-> TRUE, number |-> NewInt(0), entries |-> <<>>]

\* the file a run left at its --out path, as a later run finds it given as
\* a prior CRL: the DER as it is, or one PEM block holding it, which
\* TryParsePEM unwraps
WrittenCRL(o) ==
  LET file == [readable |-> o.written,
               bytes |-> IF o.pem = "" THEN o.bytes ELSE << <<"pem", o.bytes>> >>]
      p == ParseRevocationList(TryParsePEM(file).Bytes)
  IN [readable |-> o.written, parses |-> o.written /\ ~p.err,
      hasNumber |-> o.written /\ ~p.err, number |-> p.number, entries |-> p.entries]

\* the command is run again on the list the last run wrote: a signed build
\* extending that list, with a new include file, --number and --this-update
Reextend ==
  /\ pc = "exit"
  /\ exit = "ok"
  /\ args.cmd = "create"
  /\ ~args.tbs
  /\ out.written
  /\ disk.builds + 1 < MaxBuilds
  /\ \E inc \in { <<>>, << <<"0", "1", "1">> >> }, num \in { <<>>, <<"0", "4">> },
        tu \in { <<>>, <<"2", "0", "2", "5", "-", "0", "1", "-", "0", "1">> } :
       /\ args' = [args EXCEPT !.number = num, !.thisUpdate = tu]
       /\ disk' = [disk EXCEPT !.crls = <<WrittenCRL(out)>>, !.builds = @ + 1,
                               !.serials = [readable |-> TRUE, lines |-> inc]]
  /\ pc' = "flags"
  /\ serialsInclude' = <<>>
  /\ serialsIgnore' = <<>>
  /\ crt' = NoCert
  /\ key' = NoKey
  /\ password' = ""
  /\ updateThis' = ZeroTime
  /\ updateNext' = ZeroTime
  /\ crlNumber' = NewInt(0)
  /\ entries' = <<>>
  /\ out' = NoOutput
  /\ digest' = NoOutput
  /\ stdout' = <<>>
  /\ exit' = ""
  /\ calls' = <<>>
  /\ UNCHANGED <<builder, env>>

Lineage == Next \/ Reextend

(* ---------------------------- the process ----------------------------- *)

\* const Version
Version == "dev"

\* the errors of the flag Validators: the command line is not accepted
ValidatorErrors ==
  {"invalid CRL number, must be a valid decimal number",
   "invalid time format for --this-update/-t",
   "invalid time format for --next-update/-n"}

\* AppRun handing every error of the command back to main
AppRunReturnsExitCoder(result) ==
  CASE result = "ok" -> [exited |-> FALSE, code |-> 0, err |-> "nil"]
    [] result \in ValidatorErrors -> [exited |-> FALSE, code |-> 1, err |-> "plain"]
    [] OTHER -> [exited |-> FALSE, code |-> 1, err |-> "ExitCoder"]

\* app.Run(ctx, os.Args) for a command that ended with the given result.  The
\* error of a Validator comes back from flag parsing inside a plain error
\* ("invalid value ... for flag ..."); the cli.Exit(msg, 1) an Action returns is
\* handled by the library itself, which prints msg and exits with its code, so
\* Run does not return.
AppRun(result) ==
  CASE result = "ok" -> [exited |-> FALSE, code |-> 0, err |-> "nil"]
    [] result \in ValidatorErrors -> [exited |-> FALSE, code |-> 1, err |-> "plain"]
    [] OTHER -> [exited |-> TRUE, code |-> 1, err |-> "ExitCoder"]

\* main: the exit status of the process for a command that ended with result
Main(result) ==
  LET r == AppRun(result)
  IN IF r.exited THEN r.code
     ELSE IF r.err = "nil" THEN 0
     ELSE IF r.err = "ExitCoder"
       THEN (IF Version = "dev" /\ r.code # 0 THEN 0 ELSE r.code)
     ELSE 1

\* the exit status of a finished run; a Go panic ends the process with 2
ExitStatus == IF exit = "panic" THEN 2 ELSE Main(exit)

(* ------------------------------- inputs ------------------------------- *)

SeqsUpTo(S, n) == UNION {[1..k -> S] : k \in 0..n}

TextFile(lines) == [readable |-> TRUE, lines |-> lines]

\* an issuer certificate that may sign CRLs: signed with sigAlg, holding a
\* public key of keyType
Cert(sigAlg, keyType) ==
  [sigAlg |-> sigAlg, keyType |-> keyType, pub |-> 1,
   notBefore |-> Date(2024, 1, 1, 0, 0, 0, 0, 0),
   notAfter |-> Date(2034, 1, 1, 0, 0, 0, 0, 0), subject |-> "CN=CA", ski |-> "8c2cfe25",
   crlSign |-> TRUE]

CertFile(cert) == [readable |-> TRUE, parses |-> TRUE, cert |-> cert]

KeyFile(format, pw, type, pub) ==
  [readable |-> TRUE, format |-> format, pw |-> pw, key |-> [type |-> type, pub |-> pub]]

CRLFile(number, es) ==
  [readable |-> TRUE, parses |-> TRUE, hasNumber |-> TRUE, number |-> NewInt(number),
   entries |-> es]

UnparsableCRL ==
  [readable |-> TRUE, parses |-> FALSE, hasNumber |-> FALSE, number |-> NewInt(0),
   entries |-> <<>>]

\* a signed PEM build from an ECDSA issuer with every path given
BaseArgs ==
  [tbs |-> FALSE, digest |-> "", serials |-> "serials.txt", ignore |-> "ignore.txt",
   crt |-> "ca.crt", key |-> "ca.key", password |-> "", passwordPrompt |-> FALSE,
   thisUpdate |-> <<>>, nextUpdate |-> <<>>, number |-> <<>>, out |-> "ca.crl", pem |-> TRUE,
   cmd |-> "create", tbsPath |-> "", signature |-> ""]

BaseDisk ==
  [serials |-> TextFile(<<>>), ignore |-> TextFile(<<>>),
   crt |-> CertFile(Cert("ECDSAWithSHA256", "ECDSA")),
   key |-> KeyFile("pkcs8", "", "ECDSA", 1),
   typed |-> [err |-> FALSE, text |-> "secret"],
   crls |-> <<>>,
   builds |-> 0,
   tbs |-> [readable |-> FALSE, bytes |-> <<>>],
   signature |-> [readable |-> FALSE, holds |-> <<>>, encoding |-> "raw", bytes |-> <<>>]]

BaseEnv == [fresh |-> 8, nonce |-> 0, outFails |-> FALSE, digestFails |-> FALSE]

\* the state in which the command line is about to be parsed
Start(a, d, e) ==
  /\ args = a
  /\ disk = d
  /\ env = e
  /\ pc = "flags"
  /\ serialsInclude = <<>>
  /\ serialsIgnore = <<>>
  /\ crt = NoCert
  /\ key = NoKey
  /\ password = ""
  /\ updateThis = ZeroTime
  /\ updateNext = ZeroTime
  /\ crlNumber = NewInt(0)
  /\ entries = <<>>
  /\ out = NoOutput
  /\ digest = NoOutput
  /\ stdout = <<>>
  /\ exit = ""
  /\ calls = <<>>
  /\ builder = NoBuilder

(* merge scenarios: serial files and prior CRLs vary *)

\* lines of a serials file: canonical, with a leading zero, prefixed and in
\* upper case
MergeLines == { <<"1", "1">>, <<"0", "1", "1">>, <<"0", "x", "A", "A">> }

\* the prior CRL at position i of --extend holding the given serials, each
\* entry with a revocation time of its own
MergeCRL(serials, i) ==
  CRLFile(i, [j \in 1..Len(serials) |-> [serial |-> NewInt(serials[j]), time |-> Date(2020, 1, i, 0, 0, j, 0, 0)]])

\* the serial numbers of the entries of one prior CRL, 0x11 and 0xaa: none,
\* one, the same twice, both
MergeSources ==
  { [i \in 1..Len(ss) |-> MergeCRL(ss[i], i)] :
      ss \in SeqsUpTo({ <<>>, <<17>>, <<170>>, <<17, 17>>, <<17, 170>> }, MaxMergeSources) }

InitMerge ==
  \E inc \in SeqsUpTo(MergeLines, MaxLines), ign \in SeqsUpTo(MergeLines, MaxLines),
     srcs \in MergeSources :
    Start(BaseArgs,
          [BaseDisk EXCEPT !.serials = TextFile(inc), !.ignore = TextFile(ign), !.crls = srcs],
          BaseEnv)

(* numbering scenarios: the prior CRLs' numbers and --number vary *)

\* a prior CRL carrying number n; the odd-numbered ones hold one entry
NumberedCRL(n) ==
  CRLFile(n, IF n % 2 = 1 THEN <<[serial |-> NewInt(32 + n), time |-> Date(2020, 1, 1 + n, 0, 0, 0, 0, 0)]>> ELSE <<>>)

\* the prior CRLs: one that cannot be read, one that cannot be parsed, one
\* that parses and carries no CRL number extension, and numbered ones
NumberSources ==
  SeqsUpTo({[UnparsableCRL EXCEPT !.readable = FALSE], UnparsableCRL,
            [UnparsableCRL EXCEPT !.parses = TRUE]}
           \cup {NumberedCRL(n) : n \in {0, 2, 3, 5}},
           MaxNumberSources)

\* the largest number of 20 octets with the top bit clear, 2^159 - 1
MaxCRLNumber == [neg |-> FALSE, abs |-> [k \in 1..20 |-> IF k = 20 THEN 127 ELSE 255]]

\* --number: absent, decimal, decimal with a leading zero, not a number; or,
\* with at most one prior CRL, which may carry the largest number or an entry
\* revoked at the zero time: absent, 2^159 - 1, 2^159
InitNumber ==
  \/ \E srcs \in NumberSources,
        num \in { <<>>, <<"7">>, <<"0", "4">>, <<"0", "x", "7">> } :
       Start([BaseArgs EXCEPT !.number = num], [BaseDisk EXCEPT !.crls = srcs], BaseEnv)
  \/ \E srcs \in { <<>>, <<NumberedCRL(3)>>,
                    <<[CRLFile(0, <<>>) EXCEPT !.number = MaxCRLNumber]>>,
                    <<CRLFile(1, <<[serial |-> NewInt(17), time |-> ZeroTime]>>)>> },
        num \in { <<>>,
                  <<"7", "3", "0", "7", "5", "0", "8", "1", "8", "6", "6", "5", "4", "5", "1", "4",
                    "5", "9", "1", "0", "1", "8", "4", "2", "4", "1", "6", "3", "5", "8", "1", "4",
                    "1", "5", "0", "9", "8", "2", "7", "9", "6", "6", "2", "7", "1", "4", "8", "7">>,
                  <<"7", "3", "0", "7", "5", "0", "8", "1", "8", "6", "6", "5", "4", "5", "1", "4",
                    "5", "9", "1", "0", "1", "8", "4", "2", "4", "1", "6", "3", "5", "8", "1", "4",
                    "1", "5", "0", "9", "8", "2", "7", "9", "6", "6", "2", "7", "1", "4", "8", "8">> } :
       Start([BaseArgs EXCEPT !.number = num], [BaseDisk EXCEPT !.crls = srcs], BaseEnv)

(* registry scenarios: the lines of the include file vary *)

\* lines of a serials file: AA11, aa11, 0xaa11, the same in upper case between
\* a form feed and a no-break space, with leading zeros, not hexadecimal (zz,
\* and 0 with the kelvin sign), and empty
RegistryLines ==
  { <<"A", "A", "1", "1">>, <<"a", "a", "1", "1">>, <<"0", "x", "a", "a", "1", "1">>,
    <<"\f", "0", "X", "A", "A", "1", "1", "U+00A0">>, <<"0", "0", "a", "a", "1", "1">>,
    <<"z", "z">>, <<"0", "U+212A">>, <<>> }

InitRegistry ==
  \E inc \in SeqsUpTo(RegistryLines, MaxRegistryLines) :
    Start(BaseArgs, [BaseDisk EXCEPT !.serials = TextFile(inc)], BaseEnv)

(* flow scenarios: the flags, the certificate, the key and the times vary *)

\* issuer certificates: one per signature algorithm with a key of its family
\* (the six of the tool's table, two of RSA-PSS, ECDSA with SHA-1, RSA with
\* MD5, Ed25519), one with an unrecognised algorithm, one signed by a CA of
\* another family
FlowCerts ==
  { Cert(a, PubKeyAlgoOf(a)) :
      a \in SupportedSigAlgs \cup {"SHA256WithRSAPSS", "SHA384WithRSAPSS", "ECDSAWithSHA1",
                                   "MD5WithRSA", "PureEd25519"} }
  \cup { Cert("UnknownSignatureAlgorithm", "ECDSA"), Cert("SHA256WithRSA", "ECDSA") }

\* key files offered with a certificate: its own key, the same encrypted, a
\* different key of the same family, a PKCS#1 RSA key, and no key at all
FlowKeys(cert) ==
  { KeyFile("pkcs8", "", cert.keyType, cert.pub),
    KeyFile("pkcs8enc", "secret", cert.keyType, cert.pub),
    KeyFile("pkcs8", "", cert.keyType, cert.pub + 1),
    KeyFile("traditional", "", "RSA", cert.pub),
    [readable |-> TRUE, format |-> "garbage", pw |-> "", key |-> NoKey] }

\* every combination of the flags that select the mode and the destinations
InitFlags ==
  \E tbs \in BOOLEAN, dg \in {"", "ca.digest"}, k \in {"", "ca.key"}, c \in {"", "ca.crt"},
     pw \in {"", "secret"}, prompt \in BOOLEAN, pem \in BOOLEAN, o \in {"", "ca.crl"},
     cf \in {BaseDisk.crt, [readable |-> TRUE, parses |-> FALSE, cert |-> NoCert]}, kf \in FlowKeys(BaseDisk.crt.cert) :
    /\ c = "" => cf = BaseDisk.crt
    /\ k = "" => kf = BaseDisk.key
    /\ Start([BaseArgs EXCEPT !.tbs = tbs, !.digest = dg, !.key = k, !.crt = c,
                              !.password = pw, !.passwordPrompt = prompt,
                              !.pem = pem, !.out = o],
             [BaseDisk EXCEPT !.crt = cf, !.key = kf,
                              !.serials = TextFile(<<<<"4", "4">>>>),
                              !.crls = <<MergeCRL(<<17>>, 1)>>],
             BaseEnv)

\* every certificate, one without the crlSign key usage and one without a
\* subject key identifier, in both modes, with the draws of the run varying
InitAlgs ==
  \E tbs \in BOOLEAN, pem \in BOOLEAN, o \in {"", "ca.crl"},
     cert \in FlowCerts \cup {[Cert("ECDSAWithSHA256", "ECDSA") EXCEPT !.crlSign = FALSE],
                              [Cert("ECDSAWithSHA256", "ECDSA") EXCEPT !.ski = ""]},
     rnd \in {0, 1}, fails \in {"none", "out", "digest"} :
    \E kf \in {KeyFile("pkcs8", "", cert.keyType, cert.pub), KeyFile("traditional", "", "RSA", 1)} :
      Start([BaseArgs EXCEPT !.tbs = tbs, !.pem = pem, !.out = o,
                             !.digest = IF tbs THEN "ca.digest" ELSE "",
                             !.key = IF tbs THEN "" ELSE "ca.key"],
            [BaseDisk EXCEPT !.crt = CertFile(cert), !.key = kf,
                             !.serials = TextFile(<<<<"4", "4">>>>),
                             !.crls = <<MergeCRL(<<17>>, 1)>>],
            [fresh |-> 8 + rnd, nonce |-> rnd,
             outFails |-> fails = "out", digestFails |-> fails = "digest"])

\* --this-update and --next-update: absent, in each accepted layout, with a
\* zone offset, with a fraction of a second, the first day of year 1, and
\* malformed
TimeTexts ==
  { <<>>,
    \* 2026-01-01T00:00:00Z
    <<"2", "0", "2", "6", "-", "0", "1", "-", "0", "1", "T", "0", "0", ":", "0", "0", ":", "0", "0", "Z">>,
    \* 2027-01-01 00:00:00
    <<"2", "0", "2", "7", "-", "0", "1", "-", "0", "1", " ", "0", "0", ":", "0", "0", ":", "0", "0">>,
    \* 2028-01-01 00:00
    <<"2", "0", "2", "8", "-", "0", "1", "-", "0", "1", " ", "0", "0", ":", "0", "0">>,
    \* 2025-01-01
    <<"2", "0", "2", "5", "-", "0", "1", "-", "0", "1">>,
    \* 2026-01-01T00:30:00+02:00
    <<"2", "0", "2", "6", "-", "0", "1", "-", "0", "1", "T", "0", "0", ":", "3", "0", ":", "0", "0", "+", "0", "2", ":", "0", "0">>,
    \* 2027-01-01 00:00:00.5
    <<"2", "0", "2", "7", "-", "0", "1", "-", "0", "1", " ", "0", "0", ":", "0", "0", ":", "0", "0", ".", "5">>,
    \* 0001-01-01
    <<"0", "0", "0", "1", "-", "0", "1", "-", "0", "1">>,
    \* tomorrow
    <<"t", "o", "m", "o", "r", "r", "o", "w">> }

InitTimes ==
  \E tbs \in BOOLEAN, tu \in TimeTexts, nu \in TimeTexts :
    Start([BaseArgs EXCEPT !.tbs = tbs, !.thisUpdate = tu, !.nextUpdate = nu,
                           !.digest = IF tbs THEN "ca.digest" ELSE "",
                           !.key = IF tbs THEN "" ELSE "ca.key"],
          [BaseDisk EXCEPT !.serials = TextFile(<<<<"4", "4">>>>)],
          BaseEnv)

(* assembly scenarios: the three input files and the destination vary *)

\* the to-be-signed body of an empty list numbered 1 of the given issuer
SampleTBS(cert) ==
  TBSCertList(IF cert.sigAlg \in SupportedSigAlgs THEN cert.sigAlg ELSE "ECDSAWithSHA256",
              cert, cert.notBefore, cert.notAfter, <<>>, 1)

\* the signature of the issuer's key over that body
SampleSignature(cert) ==
  Signature([type |-> cert.keyType, pub |-> cert.pub], cert.sigAlg, SampleTBS(cert), 0)

\* the files given with --to-be-signed: missing, empty, not ASN.1, the body,
\* a PEM block holding the body, a PEM block holding nothing
TBSFiles(cert) ==
  { [readable |-> FALSE, bytes |-> <<>>], [readable |-> TRUE, bytes |-> <<>>],
    [readable |-> TRUE, bytes |-> << <<"junk">> >>],
    [readable |-> TRUE, bytes |-> <<SampleTBS(cert)>>],
    [readable |-> TRUE, bytes |-> << <<"pem", <<SampleTBS(cert)>>>> >>],
    [readable |-> TRUE, bytes |-> << <<"pem", <<>>>> >>] }

\* the files given with --signature: missing, or holding a byte string as it
\* is or as its base64 text.  The byte strings: none, the signature, a byte
\* string that reads as base64 text, and byte strings that hold a PEM block
\* (of the signature, of its base64 text, of nothing, and after other bytes)
SignatureFiles(cert) ==
  LET sig == <<SampleSignature(cert)>>
      SignatureBytes ==
        { <<>>, sig, <<Base64(sig)>>,
          << <<"pem", sig>> >>, << <<"pem", <<Base64(sig)>>>> >>,
          << <<"pem", <<>>>> >>, << <<"junk">>, <<"pem", sig>> >> }
  IN { [readable |-> FALSE, holds |-> <<>>, encoding |-> "raw", bytes |-> <<>>] }
     \cup { [readable |-> TRUE, holds |-> g, encoding |-> "raw", bytes |-> g] :
               g \in SignatureBytes }
     \cup { [readable |-> TRUE, holds |-> g, encoding |-> "base64", bytes |-> <<Base64(g)>>] :
               g \in SignatureBytes }

InitAssemble ==
  \E t \in {"", "ca.tbs"}, g \in {"", "ca.sig"}, c \in {"", "ca.crt"},
     o \in {"", "ca.crl"}, pem \in BOOLEAN, fails \in BOOLEAN,
     cf \in {CertFile(cert) : cert \in FlowCerts} \cup {[readable |-> TRUE, parses |-> FALSE, cert |-> NoCert]} :
    \E tf \in TBSFiles(cf.cert), sf \in SignatureFiles(cf.cert) :
      /\ args = [BaseArgs EXCEPT !.cmd = "assemble", !.tbsPath = t, !.signature = g,
                                 !.crt = c, !.key = "", !.serials = "", !.ignore = "",
                                 !.out = o, !.pem = pem]
      /\ disk = [BaseDisk EXCEPT !.tbs = tf, !.signature = sf, !.crt = cf]
      /\ env = [BaseEnv EXCEPT !.outFails = fails]
      /\ pc = "assemble"
      /\ serialsInclude = <<>>
      /\ serialsIgnore = <<>>
      /\ crt = NoCert
      /\ key = NoKey
      /\ password = ""
      /\ updateThis = ZeroTime
      /\ updateNext = ZeroTime
      /\ crlNumber = NewInt(0)
      /\ entries = <<>>
      /\ out = NoOutput
      /\ digest = NoOutput
      /\ stdout = <<>>
      /\ exit = ""
      /\ calls = <<>>
      /\ builder = NoBuilder

\* the first build of a lineage: no prior CRL, PEM or DER output
InitLineage ==
  \E inc \in { <<>>, << <<"1", "1">> >> }, num \in { <<>>, <<"7">> }, pem \in BOOLEAN :
    Start([BaseArgs EXCEPT !.number = num, !.pem = pem],
          [BaseDisk EXCEPT !.serials = TextFile(inc), !.ignore = TextFile(<<>>)],
          BaseEnv)

InitFlow == InitFlags \/ InitAlgs \/ InitTimes

Init == InitMerge \/ InitNumber \/ InitRegistry \/ InitFlow \/ InitAssemble \/ InitLineage

(* --------------------------- specifications --------------------------- *)

Spec == Init /\ [][Run]_vars

SpecMerge == InitMerge /\ [][Next]_vars

SpecNumber == InitNumber /\ [][Next]_vars

SpecRegistry == InitRegistry /\ [][Next]_vars

SpecAssemble == InitAssemble /\ [][CmdAssemble]_vars

\* both commands, with the destination, the container and the mode varying
SpecOutput == (InitAlgs \/ InitAssemble) /\ [][Run]_vars

SpecFlow == InitFlow /\ [][Next]_vars

SpecLineage == InitLineage /\ [][Lineage]_vars

(* --------------------------- the build helper ------------------------- *)

\* strings.Split(s, sep) for a separator of one character: the pieces of s
\* between the separators, one piece more than there are separators
RECURSIVE Split(_, _)
Split(s, sep) ==
  IF \A i \in 1..Len(s) : s[i] # sep THEN <<s>>
  ELSE LET i == CHOOSE k \in 1..Len(s) : s[k] = sep /\ \A j \in 1..(k - 1) : s[j] # sep
       IN <<SubSeq(s, 1, i - 1)>> \o Split(SubSeq(s, i + 1, Len(s)), sep)

Linux == <<"l", "i", "n", "u", "x">>

Darwin == <<"d", "a", "r", "w", "i", "n">>

Windows == <<"w", "i", "n", "d", "o", "w", "s">>

Amd64 == <<"a", "m", "d", "6", "4">>

Arm64 == <<"a", "r", "m", "6", "4">>

BuildTarget(os, arch) == [OS |-> os, Arch |-> arch]

buildTargetsDefault ==
  << BuildTarget(Linux, Amd64), BuildTarget(Linux, Arm64), BuildTarget(Darwin, Amd64),
     BuildTarget(Darwin, Arm64), BuildTarget(Windows, Amd64), BuildTarget(Windows, Arm64) >>

\* runtime.GOOS and runtime.GOARCH of the machine the helper runs on
RuntimeTarget == BuildTarget(Linux, Amd64)

\* the version the helper falls back on
VERSION == <<"d", "e", "v">>

\* main's loop over the pieces of -targets: each piece is split at "/" and
\* must give two parts; the first piece that does not ends the run
RECURSIVE TargetsLoop(_, _)
TargetsLoop(targetsList, buildTargets) ==
  IF targetsList = <<>> THEN [err |-> FALSE, buildTargets |-> buildTargets, bad |-> <<>>]
  ELSE LET parts == Split(Head(targetsList), "/")
       IN IF Len(parts) # 2
          THEN [err |-> TRUE, buildTargets |-> buildTargets, bad |-> Head(targetsList)]
          ELSE TargetsLoop(Tail(targetsList),
                           Append(buildTargets, BuildTarget(parts[1], parts[2])))

\* the value of -targets as main takes it apart: the list is cut at "/"
ParseTargets(targets) == TargetsLoop(Split(targets, "/"), <<>>)

\* the directory the helper builds into unless -out names another
DIST_DIR == <<"d", "i", "s", "t">>

\* readVersion: the trimmed content of the VERSION file; VERSION and an
\* error when the file cannot be read or holds nothing but white space
readVersion(file) ==
  IF ~file.readable \/ TrimSpace(file.text) = <<>> THEN [err |-> TRUE, v |-> VERSION]
  ELSE [err |-> FALSE, v |-> TrimSpace(file.text)]

\* usage() and os.Exit(1), after the given lines were logged: usage logs its
\* lines and prints the line of the default targets
BuilderUsageExit(lines) ==
  [builder EXCEPT !.pc = "exit", !.code = 1,
                  !.stderr = @ \o lines \o << <<"Usage">>, <<"Options">>,
                                              <<"Default build targets (-all)">> >>,
                  !.stdout = @ \o << <<"targets", buildTargetsDefault>> >>]

\* main: -targets and -all exclude each other
BuilderFlags ==
  /\ builder.pc = "flags"
  /\ IF builder.targets # <<>> /\ builder.all
     THEN builder' =
            BuilderUsageExit(<< <<"Error: cannot specify both -targets and -all flags">> >>)
     ELSE builder' = [builder EXCEPT !.pc = "targets"]
  /\ UNCHANGED cmdVars

\* main: the targets to build are those of -targets, the six default ones
\* with -all, and the machine's own otherwise
BuilderTargets ==
  /\ builder.pc = "targets"
  /\ LET r == ParseTargets(builder.targets)
     IN IF builder.targets # <<>>
        THEN IF r.err
             THEN builder' = BuilderUsageExit(<< <<"Error: invalid target format", r.bad>> >>)
             ELSE builder' = [builder EXCEPT !.pc = "name", !.buildTargets = r.buildTargets]
        ELSE builder' = [builder EXCEPT !.pc = "name",
                           !.buildTargets = IF builder.all THEN buildTargetsDefault
                                            ELSE <<RuntimeTarget>>]
  /\ UNCHANGED cmdVars

\* main: -out replaces the output directory; the binary's name is required;
\* the version is that of -version, else that of the VERSION file, and a
\* VERSION file that gives none is warned about; the goroutines are started
BuilderName ==
  /\ builder.pc = "name"
  /\ LET rv == readVersion(builder.versionFile)
         v  == IF builder.versionFlag # <<>> THEN builder.versionFlag ELSE rv.v
     IN IF builder.name = <<>>
        THEN builder' = [BuilderUsageExit(<<>>) EXCEPT
                           !.distDir = IF builder.out # <<>> THEN builder.out ELSE DIST_DIR]
        ELSE builder' = [builder EXCEPT
               !.pc = "build",
               !.distDir = IF builder.out # <<>> THEN builder.out ELSE DIST_DIR,
               !.version = v,
               !.stage = [i \in 1..Len(builder.buildTargets) |-> "mkdir"],
               !.stdout = @ \o (IF rv.err THEN << <<"Warn: reading version">> >> ELSE <<>>)
                            \o << IF v # <<>> THEN <<"Building", builder.name, v>>
                                  ELSE <<"Building", builder.name>> >>]
  /\ UNCHANGED cmdVars

\* buildAndPackage's directory of a target: DIST_DIR/version/name-os-arch
DirOf(target) == <<builder.distDir, builder.version, builder.name, target.OS, target.Arch>>

\* buildAndPackage's binary of a target: its directory, its name, which ends
\* in .exe for windows, and the linker flags: the version, and the stripping
\* of a release
BinaryOf(target) ==
  <<DirOf(target),
    IF target.OS = Windows THEN builder.name \o <<".", "e", "x", "e">> ELSE builder.name,
    <<builder.version, builder.release>> >>

\* packageDir: the archive's path is the directory's with the extension of
\* its kind, a zip archive for windows and a gzipped tar archive otherwise
ArchiveOf(target) == <<DirOf(target), IF target.OS = Windows THEN "zip" ELSE "tar.gz">>

\* a goroutine of main's loop takes the step its target stands at; failStep
\* is the step the environment makes fail, for the targets of one operating
\* system.  buildAndPackage: os.MkdirAll of the target's directory
BuilderMkdir ==
  /\ builder.pc = "build"
  /\ \E i \in 1..Len(builder.buildTargets) :
       LET target == builder.buildTargets[i]
       IN /\ builder.stage[i] = "mkdir"
          /\ builder' =
               IF builder.failStep = "mkdir" /\ target.OS = Linux
               THEN [builder EXCEPT !.stage[i] = "done"]
               ELSE [builder EXCEPT !.stage[i] = "announce",
                                    !.dirs = @ \cup {DirOf(target)}]
  /\ UNCHANGED cmdVars

\* buildAndPackage: the `go build` of the target is announced
BuilderAnnounce ==
  /\ builder.pc = "build"
  /\ \E i \in 1..Len(builder.buildTargets) :
       /\ builder.stage[i] = "announce"
       /\ builder' = [builder EXCEPT !.stage[i] = "compile",
                                     !.printed = @ \cup {<<"go build", builder.buildTargets[i]>>}]
  /\ UNCHANGED cmdVars

\* buildAndPackage: cmd.Run returns; the binary is there when `go build`
\* succeeded
BuilderCompile ==
  /\ builder.pc = "build"
  /\ \E i \in 1..Len(builder.buildTargets) :
       LET target == builder.buildTargets[i]
       IN /\ builder.stage[i] = "compile"
          /\ builder' =
               IF builder.failStep = "compile" /\ target.OS = Linux
               THEN [builder EXCEPT !.stage[i] = "done"]
               ELSE [builder EXCEPT !.stage[i] = "package",
                                    !.binaries = @ \cup {BinaryOf(target)}]
  /\ UNCHANGED cmdVars

\* createZip, createTarGz: the archive is announced
BuilderPackage ==
  /\ builder.pc = "build"
  /\ \E i \in 1..Len(builder.buildTargets) :
       /\ builder.stage[i] = "package"
       /\ builder' = [builder EXCEPT
                        !.stage[i] = "create",
                        !.printed = @ \cup {<<"creating archive", builder.buildTargets[i]>>}]
  /\ UNCHANGED cmdVars

\* createZip, createTarGz: os.Create of the archive, which is empty and open
BuilderCreate ==
  /\ builder.pc = "build"
  /\ \E i \in 1..Len(builder.buildTargets) :
       LET target == builder.buildTargets[i]
       IN /\ builder.stage[i] = "create"
          /\ builder' =
               IF builder.failStep = "create" /\ target.OS = Linux
               THEN [builder EXCEPT !.stage[i] = "done"]
               ELSE [builder EXCEPT !.stage[i] = "walk",
                                    !.archives = @ \cup {<<ArchiveOf(target), "empty", "open">>}]
  /\ UNCHANGED cmdVars

\* createZip, createTarGz: filepath.Walk copies the directory into the
\* archive; a walk that fails leaves the archive as far as it got, with
\* nothing or a part of the binary in it
BuilderWalk ==
  /\ builder.pc = "build"
  /\ \E i \in 1..Len(builder.buildTargets) :
       LET target == builder.buildTargets[i]
           next   == IF target.OS = Windows THEN "close" ELSE "complete"
       IN /\ builder.stage[i] = "walk"
          /\ \E holds \in IF builder.failStep = "walk" /\ target.OS = Linux
                          THEN {"empty", "part"} ELSE {"binary"} :
               builder' = [builder EXCEPT
                             !.stage[i] = next,
                             !.archives = (@ \ {<<ArchiveOf(target), "empty", "open">>})
                                          \cup {<<ArchiveOf(target), holds, "open">>}]
  /\ UNCHANGED cmdVars

\* createTarGz: the deferred report, printed whether the walk failed or not
BuilderComplete ==
  /\ builder.pc = "build"
  /\ \E i \in 1..Len(builder.buildTargets) :
       /\ builder.stage[i] = "complete"
       /\ builder' = [builder EXCEPT
                        !.stage[i] = "close",
                        !.printed = @ \cup {<<"build complete", builder.buildTargets[i]>>}]
  /\ UNCHANGED cmdVars

\* createZip, createTarGz: the deferred Close of the writers and of the file;
\* packageDir returns, and buildAndPackage with it when the walk failed
BuilderClose ==
  /\ builder.pc = "build"
  /\ \E i \in 1..Len(builder.buildTargets) :
       LET target == builder.buildTargets[i]
       IN /\ builder.stage[i] = "close"
          /\ builder' = [builder EXCEPT
               !.stage[i] = IF builder.failStep = "walk" /\ target.OS = Linux THEN "done"
                            ELSE "remove",
               !.archives = {IF a[1] = ArchiveOf(target) THEN <<a[1], a[2], "closed">> ELSE a :
                               a \in @}]
  /\ UNCHANGED cmdVars

\* buildAndPackage: os.RemoveAll of the target's directory, and the return
BuilderRemove ==
  /\ builder.pc = "build"
  /\ \E i \in 1..Len(builder.buildTargets) :
       LET target == builder.buildTargets[i]
       IN /\ builder.stage[i] = "remove"
          /\ builder' =
               IF builder.failStep = "remove" /\ target.OS = Linux
               THEN [builder EXCEPT !.stage[i] = "done"]
               ELSE [builder EXCEPT !.stage[i] = "done",
                                    !.dirs = @ \ {DirOf(target)},
                                    !.binaries = @ \ {BinaryOf(target)}]
  /\ UNCHANGED cmdVars

\* wg.Wait(): every goroutine has returned and main returns; the errors of
\* buildAndPackage are dropped
BuilderWait ==
  /\ builder.pc = "build"
  /\ \A i \in 1..Len(builder.buildTargets) : builder.stage[i] = "done"
  /\ builder' = [builder EXCEPT !.pc = "exit", !.code = 0]
  /\ UNCHANGED cmdVars

Build ==
  \/ BuilderFlags
  \/ BuilderTargets
  \/ BuilderName
  \/ BuilderMkdir
  \/ BuilderAnnounce
  \/ BuilderCompile
  \/ BuilderPackage
  \/ BuilderCreate
  \/ BuilderWalk
  \/ BuilderComplete
  \/ BuilderClose
  \/ BuilderRemove
  \/ BuilderWait

\* the helper started with the given flags and surroundings
BuilderStart(b) ==
  /\ builder = b
  /\ args = BaseArgs
  /\ disk = BaseDisk
  /\ env = BaseEnv
  /\ pc = "none"
  /\ serialsInclude = <<>>
  /\ serialsIgnore = <<>>
  /\ crt = NoCert
  /\ key = NoKey
  /\ password = ""
  /\ updateThis = ZeroTime
  /\ updateNext = ZeroTime
  /\ crlNumber = NewInt(0)
  /\ entries = <<>>
  /\ out = NoOutput
  /\ digest = NoOutput
  /\ stdout = <<>>
  /\ exit = ""
  /\ calls = <<>>

\* the flags vary: -targets (none, one target, two targets separated by a
\* comma, a word, a target followed by a comma), -all, -name; or the version, the output directory
\* and the kind of build: -version, -out, -release, and a VERSION file that
\* is missing, holds a form feed alone, or a version between white space; or
\* a step of buildAndPackage fails for the linux targets, with -all one of
\* the first steps
InitBuilder ==
  \/ \E targets \in { <<>>,
                       Linux \o <<"/">> \o Amd64,
                       Linux \o <<"/">> \o Amd64 \o <<",">> \o Windows \o <<"/">> \o Arm64,
                       Linux,
                       Darwin \o <<"/">> \o Arm64 \o <<",">> },
        all \in BOOLEAN, name \in { <<>>, <<"r", "v">> } :
       BuilderStart([NoBuilder EXCEPT !.pc = "flags", !.targets = targets, !.all = all,
                                      !.name = name,
                                      !.versionFile = [readable |-> TRUE,
                                                       text |-> <<"1", ".", "0">>]])
  \/ \E vflag \in { <<>>, <<"2", ".", "1">> }, o \in { <<>>, <<"o", "u", "t">> },
        release \in BOOLEAN,
        vfile \in { [readable |-> FALSE, text |-> <<>>],
                    [readable |-> TRUE, text |-> <<"\f">>],
                    [readable |-> TRUE, text |-> <<"\n", "1", ".", "0", "\f">>] } :
       BuilderStart([NoBuilder EXCEPT !.pc = "flags", !.name = <<"r", "v">>, !.out = o,
                                      !.release = release, !.versionFlag = vflag,
                                      !.versionFile = vfile])
  \/ \E all \in BOOLEAN, step \in {"mkdir", "compile", "create", "walk", "remove"} :
       (all => step \in {"mkdir", "compile"}) /\
       BuilderStart([NoBuilder EXCEPT !.pc = "flags", !.name = <<"r", "v">>, !.all = all,
                                      !.failStep = step,
                                      !.versionFile = [readable |-> TRUE,
                                                       text |-> <<"1", ".", "0">>]])

SpecBuilder == InitBuilder /\ [][Build]_vars

(* ------------------------------ properties ---------------------------- *)

\* the run has produced its list
Built == pc = "exit" /\ exit = "ok"

\* the run ended in a fatal error
EndedFatal == pc = "exit" /\ exit \notin {"", "ok", "panic"}

\* nothing was written or printed
NoOutputAtAll == out = NoOutput /\ digest = NoOutput /\ stdout = <<>>

\* the bytes of the list (or to-be-signed body) a finished build produced: in
\* the --out file, or else the last thing printed
BuiltBytes == IF out.written THEN out.bytes ELSE stdout[Len(stdout)].bytes

BuiltTBS == BuiltBytes[1]

BuiltEntries == BuiltTBS[6]

\* the integer a big.Int of at most four bytes holds
Int64(x) ==
  LET n == Len(x.abs)
      v[k \in 0..n] == IF k = 0 THEN 0 ELSE v[k - 1] * 256 + x.abs[n - k + 1]
  IN IF x.neg THEN 0 - v[n] ELSE v[n]

BuiltNumber == Int64(BuiltTBS[8])

BuiltSerials == {BuiltEntries[i].serial : i \in 1..Len(BuiltEntries)}

\* the integer a serial text denotes
SerialValue(text) == SetString(text, 16).val

IgnoreValues == {SerialValue(serialsIgnore[i]) : i \in 1..Len(serialsIgnore)}

IncludeValues == {SerialValue(serialsInclude[i]) : i \in 1..Len(serialsInclude)}

\* the prior CRLs that load and parse
ParsedSources == {i \in 1..Len(disk.crls) : disk.crls[i].readable /\ disk.crls[i].parses}

PriorSerials ==
  UNION { {disk.crls[i].entries[j].serial : j \in 1..Len(disk.crls[i].entries)} :
          i \in ParsedSources }

\* C1: no entry returned by ExtractRevocationEntries has a serial whose
\* integer value is that of a serial of the ignore list.
C1_ExtractedNotIgnored ==
  \A i \in 1..Len(entries) : entries[i].serial \notin IgnoreValues

\* C2: the serials of the built list are exactly the prior serials and the
\* include serials, without the ignored ones.
C2_BuiltIsPriorAndIncludeMinusIgnore ==
  Built => BuiltSerials = (PriorSerials \ IgnoreValues) \cup (IncludeValues \ IgnoreValues)

\* C3: a serial of the ignore list never appears in the list CreateCRL
\* produces, whatever its textual form and even when the include list has it.
C3_IgnoredNeverBuilt ==
  Built => BuiltSerials \cap IgnoreValues = {}

\* C4: no two entries of a built list have the same serial number value.
C4_NoDuplicateSerials ==
  Built => \A i, j \in 1..Len(BuiltEntries) :
             BuiltEntries[i].serial = BuiltEntries[j].serial => i = j

\* the CRL numbers of the prior CRLs that load, parse and carry one
ParsedNumbers ==
  {Int64(disk.crls[i].number) : i \in {j \in ParsedSources : disk.crls[j].hasNumber}}

Max(S) == CHOOSE m \in S : \A x \in S : x <= m

\* C5: with no --number the built list carries the highest number of the
\* parsed prior CRLs plus one, and 1 when no prior CRL parses.
C5_AutoNumberIsMaxPlusOne ==
  (Built /\ args.number = <<>>) =>
    BuiltNumber = IF ParsedNumbers = {} THEN 1 ELSE Max(ParsedNumbers) + 1

\* prior CRLs numbered 3, 5 and 2, the last holding no entry, were extended
\* without --number and the built list carries 6
C5_Witness ==
  /\ Built
  /\ args.number = <<>>
  /\ Len(disk.crls) = 3
  /\ ParsedSources = {1, 2, 3}
  /\ <<disk.crls[1].number, disk.crls[2].number, disk.crls[3].number>>
       = <<NewInt(3), NewInt(5), NewInt(2)>>
  /\ disk.crls[3].entries = <<>>
  /\ BuiltNumber = 6

\* the number a --number text of the model denotes, read as decimal: 7, 04,
\* and the one of 48 digits that ends in 7, which is 2^159 - 1
ExplicitNumber ==
  CASE args.number = <<"7">> -> NewInt(7)
    [] args.number = <<"0", "4">> -> NewInt(4)
    [] Len(args.number) = 48 /\ args.number[48] = "7" -> MaxCRLNumber
    [] OTHER -> NoCRLNumber

\* C6: with --number the built list carries exactly that number, whatever
\* the prior CRLs carry.
C6_ExplicitNumberVerbatim ==
  (Built /\ args.number # <<>>) => BuiltTBS[8] = ExplicitNumber

\* --number 04 was given with a prior CRL numbered 5, and the list carries 4
C6_Witness ==
  /\ Built
  /\ args.number = <<"0", "4">>
  /\ 5 \in ParsedNumbers
  /\ BuiltNumber = 4

\* the bytes a CreateCRL or AssembleCRL result put out
OutputBytes(r) == IF r.out.written THEN r.out.bytes ELSE r.stdout[Len(r.stdout)].bytes

\* the TBS-mode build of the inputs of the present run, with the given throwaway key
TBSBuild(fresh) ==
  CreateCRL(crt, NoKey, [CreateParams EXCEPT !.TBS = TRUE, !.DigestPath = "ca.digest"],
            [fresh |-> fresh, nonce |-> 1 - env.nonce, outFails |-> FALSE, digestFails |-> FALSE])

\* C7: assembling the body of the TBS-mode build of the same inputs with the
\* signature of a signed build gives the signed build's bytes, in the same
\* container.
C7_AssembleEqualsSigned ==
  (Built /\ ~args.tbs) =>
    \A fresh \in {8, 9} :
      ~TBSBuild(fresh).err =>
        LET a == AssembleCRL(crt, OutputBytes(TBSBuild(fresh)), <<BuiltBytes[3]>>,
                             args.out, args.pem, FALSE)
        IN /\ ~a.err
           /\ OutputBytes(a) = BuiltBytes
           /\ a.out = out

\* a signed build from an ECDSA-SHA384 issuer whose TBS-mode build succeeds
C7_Witness ==
  /\ Built
  /\ ~args.tbs
  /\ crt.sigAlg = "ECDSAWithSHA384"
  /\ ~TBSBuild(9).err
  /\ Len(BuiltEntries) = 2

\* C8: in TBS mode the digest destination holds the hash of the TBS bytes
\* under the hash of the issuer certificate's signature algorithm.
C8_DigestIsHashOfTBS ==
  (Built /\ args.tbs) =>
    /\ digest.written
    /\ digest.bytes = <<HashOf(GetSignatureAlgAndHash(crt).hash, BuiltBytes)>>

\* the mode and --key disagree: TBS mode with a key, signed mode without one
KeyAgainstMode == (args.tbs /\ args.key # "") \/ (~args.tbs /\ args.key = "")

\* C9: a TBS-mode build given a key, and a signed build given none, end in a
\* fatal error with nothing written or printed.
C9_KeyAgainstModeIsFatal ==
  (pc = "exit" /\ KeyAgainstMode) => (EndedFatal /\ NoOutputAtAll)

\* a TBS-mode run with a digest destination and a key has ended
C9_Witness ==
  /\ pc = "exit"
  /\ args.tbs
  /\ args.digest # ""
  /\ args.key # ""
  /\ exit = "issuer private key should not be specified when creating a TBS CRL"

\* C10: in TBS mode neither ParsePrivateSigner nor PromptPassword is ever
\* called, and without a digest destination the run fails with nothing written.
C10_TBSNeverLoadsKey ==
  args.tbs =>
    /\ ~IsIn("ParsePrivateSigner", calls)
    /\ ~IsIn("PromptPassword", calls)
    /\ (pc = "exit" /\ args.digest = "") => (EndedFatal /\ NoOutputAtAll /\ calls = <<>>)

\* a TBS-mode run went past the loading of the key and wrote its body and digest
C10_Witness ==
  /\ args.tbs
  /\ Built
  /\ out.written
  /\ digest.written
  /\ key = NoKey

\* the loaded key is not the key of the issuer certificate
KeyMismatch == key # NoKey /\ (key.type # crt.keyType \/ key.pub # crt.pub)

\* C11: in signed mode a key whose public key is not the issuer certificate's
\* ends the run in a fatal error, and CreateCRL is never called in that run.
C11_MismatchFatalBeforeSigning ==
  (~args.tbs /\ KeyMismatch) =>
    /\ EndedFatal
    /\ exit = "issuer certificate and private key do not match"
    /\ ~IsIn("CreateCRL", calls)
    /\ out = NoOutput
    /\ digest = NoOutput

\* a signed run loaded a key of the certificate's family with another public
\* key, compared it, and has ended
C11_Witness ==
  /\ pc = "exit"
  /\ ~args.tbs
  /\ key.type = crt.keyType
  /\ key.pub # crt.pub
  /\ calls[Len(calls)] = "VerifyCrtKeyMatch"

\* C12: VerifyCrtKeyMatch succeeds exactly when the signer's key is of the
\* certificate key's family (RSA, ECDSA, Ed25519) and its public key equals the
\* certificate's.
C12_MatchIffSameKey ==
  IsIn("VerifyCrtKeyMatch", calls) =>
    (VerifyCrtKeyMatch(crt, key) <=>
       (key.type \in {"RSA", "ECDSA", "Ed25519"} /\ key.type = crt.keyType /\ key.pub = crt.pub))

\* C13: a run that ends in a fatal error ends the process with a status
\* other than zero.
C13_FatalExitsNonZero == EndedFatal => ExitStatus # 0

\* a run ended on a key that does not match the certificate, with status 1
C13_Witness ==
  /\ pc = "exit"
  /\ exit = "issuer certificate and private key do not match"
  /\ ExitStatus = 1

\* the prior CRLs that load and parse, in their order
LoadedSources == SelectSeq(disk.crls, LAMBDA f : f.readable /\ f.parses)

\* C14: a prior CRL that cannot be read or parsed is skipped: extraction
\* returns what it returns on the sources that load and parse, and the run
\* never ends in an extraction error.
C14_BadSourcesSkipped ==
  LET all    == ExtractRevocationEntries(serialsIgnore, disk.crls)
      loaded == ExtractRevocationEntries(serialsIgnore, LoadedSources)
  IN IsIn("ExtractRevocationEntries", calls) =>
       /\ all = loaded
       /\ pc = "number" => (crlNumber = loaded.number /\ entries = loaded.entries)
       /\ exit = "panic" => loaded.panic
       /\ exit # "failed to extract revocation entries from existing CRLs"

\* a list numbered 3, a file that does not parse and a list numbered 5 gave
\* number 5 and the entries of both lists
C14_Witness ==
  /\ pc = "number"
  /\ disk.crls = <<NumberedCRL(3), UnparsableCRL, NumberedCRL(5)>>
  /\ crlNumber = NewInt(5)
  /\ Len(entries) = 2

\* the include file has been read
IncludeRead == IsIn("ReadSerialNumbersFromFile", calls)

IncludeLines == disk.serials.lines

\* the serial each line of the registry scenarios stands for after trimming,
\* lower-casing and removing one 0x; <<"none">> for a line that yields nothing
ExpectedSerial(line) ==
  CASE line \in { <<"A", "A", "1", "1">>, <<"a", "a", "1", "1">>,
                  <<"0", "x", "a", "a", "1", "1">>,
                  <<"\f", "0", "X", "A", "A", "1", "1", "U+00A0">> } -> <<"a", "a", "1", "1">>
    [] line = <<"0", "0", "a", "a", "1", "1">> -> line
    [] OTHER -> <<"none">>

\* C15: lines that differ only in surrounding blanks, letter case or the 0x
\* prefix give one serial, the trimmed lower-case text without the prefix;
\* AA11, aa11, 0xaa11 give exactly aa11; empty lines give nothing.
C15_LinesNormalised ==
  IncludeRead =>
    /\ Range(serialsInclude) =
         {ExpectedSerial(IncludeLines[i]) : i \in 1..Len(IncludeLines)} \ {<<"none">>}
    /\ \A i, j \in 1..Len(serialsInclude) : serialsInclude[i] = serialsInclude[j] => i = j
    /\ IncludeLines = << <<"A", "A", "1", "1">>, <<"a", "a", "1", "1">>,
                         <<"0", "x", "a", "a", "1", "1">> >>
         => serialsInclude = << <<"a", "a", "1", "1">> >>

\* the file AA11, aa11, 0xaa11 was read and gave aa11 alone
C15_Witness ==
  /\ IncludeRead
  /\ IncludeLines = << <<"A", "A", "1", "1">>, <<"a", "a", "1", "1">>,
                       <<"0", "x", "a", "a", "1", "1">> >>
  /\ serialsInclude = << <<"a", "a", "1", "1">> >>

\* C16: reading a file that holds the serials read from a file gives the same
\* serials in the same order.
C16_ParseIdempotent ==
  IncludeRead =>
    ReadSerialNumbersFromFile("serials.txt", TextFile(serialsInclude))
      = [err |-> FALSE, serials |-> serialsInclude]

\* a file with a prefixed upper-case line, a malformed line and a line with
\* leading zeros was read into two serials
C16_Witness ==
  /\ IncludeRead
  /\ IncludeLines = << <<"\f", "0", "X", "A", "A", "1", "1", "U+00A0">>, <<"z", "z">>,
                       <<"0", "0", "a", "a", "1", "1">> >>
  /\ Len(serialsInclude) = 2

\* the first line of the include file that stands for the value v
FirstLineOf(v) ==
  CHOOSE k \in 1..Len(IncludeLines) :
    /\ ExpectedSerial(IncludeLines[k]) # <<"none">>
    /\ SerialValue(ExpectedSerial(IncludeLines[k])) = v
    /\ \A m \in 1..(k - 1) :
         ExpectedSerial(IncludeLines[m]) = <<"none">>
         \/ SerialValue(ExpectedSerial(IncludeLines[m])) # v

\* C17: every serial read is the lower-case hexadecimal text of its own
\* non-negative value, two lines of the same value give one serial, and the
\* serials come in the order their values first appear.
C17_SerialsCanonical ==
  IncludeRead =>
    /\ \A i \in 1..Len(serialsInclude) :
         /\ SetString(serialsInclude[i], 16).ok
         /\ ~SerialValue(serialsInclude[i]).neg
         /\ serialsInclude[i] = Text16(SerialValue(serialsInclude[i]))
    /\ \A i, j \in 1..Len(serialsInclude) :
         SerialValue(serialsInclude[i]) = SerialValue(serialsInclude[j]) => i = j
    /\ \A i, j \in 1..Len(serialsInclude) :
         i < j => FirstLineOf(SerialValue(serialsInclude[i]))
                    < FirstLineOf(SerialValue(serialsInclude[j]))

\* the lines that do not parse as hexadecimal
MalformedLines == { <<"z", "z">>, <<"0", "U+212A">> }

\* C18: a line that is not hexadecimal is skipped: reading never fails on it
\* and gives what the file without such lines gives.
C18_MalformedSkipped ==
  IncludeRead =>
    /\ exit # "failed to read serials file"
    /\ serialsInclude =
         ReadSerialNumbersFromFile("serials.txt",
           TextFile(SelectSeq(IncludeLines, LAMBDA l : l \notin MalformedLines))).serials

\* a file with a malformed line between two good ones gave the two good ones
C18_Witness ==
  /\ IncludeRead
  /\ IncludeLines = << <<"a", "a", "1", "1">>, <<"z", "z">>,
                       <<"0", "0", "a", "a", "1", "1">> >>
  /\ serialsInclude = << <<"a", "a", "1", "1">>, <<"0", "0", "a", "a", "1", "1">> >>

\* the instant a time text of the scenarios names, in whole seconds: its day
\* counted from 1 January of year 1 and the second of that day in UTC
SuppliedTime(timeStr) ==
  CASE timeStr = <<"2", "0", "2", "6", "-", "0", "1", "-", "0", "1", "T", "0", "0", ":", "0", "0", ":", "0", "0", "Z">> -> Instant(739616, 0, 0)
    [] timeStr = <<"2", "0", "2", "7", "-", "0", "1", "-", "0", "1", " ", "0", "0", ":", "0", "0", ":", "0", "0">> -> Instant(739981, 0, 0)
    [] timeStr = <<"2", "0", "2", "8", "-", "0", "1", "-", "0", "1", " ", "0", "0", ":", "0", "0">> -> Instant(740346, 0, 0)
    [] timeStr = <<"2", "0", "2", "5", "-", "0", "1", "-", "0", "1">> -> Instant(739251, 0, 0)
    [] timeStr = <<"2", "0", "2", "6", "-", "0", "1", "-", "0", "1", "T", "0", "0", ":", "3", "0", ":", "0", "0", "+", "0", "2", ":", "0", "0">> -> Instant(739615, 81000, 0)
    [] timeStr = <<"2", "0", "2", "7", "-", "0", "1", "-", "0", "1", " ", "0", "0", ":", "0", "0", ":", "0", "0", ".", "5">> -> Instant(739981, 0, 0)
    [] timeStr = <<"0", "0", "0", "1", "-", "0", "1", "-", "0", "1">> -> Instant(0, 0, 0)
    [] OTHER -> Instant(-1, 0, 0)

BuiltThisUpdate == BuiltTBS[4]

BuiltNextUpdate == BuiltTBS[5]

\* C19: the built list's ThisUpdate is the certificate's NotBefore when
\* --this-update is absent and the supplied time otherwise; its NextUpdate is
\* the certificate's NotAfter when --next-update is absent and the supplied
\* time otherwise.
C19_TimesDefaultOrSupplied ==
  Built =>
    /\ BuiltThisUpdate = IF args.thisUpdate = <<>> THEN crt.notBefore
                         ELSE SuppliedTime(args.thisUpdate)
    /\ BuiltNextUpdate = IF args.nextUpdate = <<>> THEN crt.notAfter
                         ELSE SuppliedTime(args.nextUpdate)

\* C20: with DER output and no --out path a signed build, a TBS build and an
\* assembly end in a fatal error with nothing written or printed; with PEM
\* output and no path the result is printed as a PEM block and the --out
\* destination stays unwritten (a TBS build still writes its digest file).
C20_OutputDestination ==
  /\ (pc = "exit" /\ ~args.pem /\ args.out = "") => (EndedFatal /\ NoOutputAtAll)
  /\ (Built /\ args.pem /\ args.out = "") =>
       /\ out = NoOutput
       /\ stdout # <<>>
       /\ stdout[Len(stdout)].pem = "X509 CRL"
       /\ (args.cmd = "assemble" \/ ~args.tbs) => digest = NoOutput

\* an assembly with a body, a signature and a certificate of a supported
\* algorithm was refused for want of a path for its DER output
C20_Witness ==
  /\ pc = "exit"
  /\ args.cmd = "assemble"
  /\ ~args.pem
  /\ args.out = ""
  /\ calls = <<"ParseTBSCRL", "ReadSignatureFile", "ParseCertificate", "AssembleCRL">>
  /\ ~GetSignatureAlgAndHash(crt).err
  /\ disk.signature.bytes # <<>>
  /\ exit = "failed to assemble CRL"

\* C20 as stated: with PEM output and no --out path the result is printed and
\* no file at all is written, in either mode of a build and in an assembly.
C20_NoFileWhenPrinted ==
  (Built /\ args.pem /\ args.out = "") =>
    (stdout # <<>> /\ out = NoOutput /\ digest = NoOutput)

\* the run is an assembly that was given its three paths
Assembling == args.cmd = "assemble" /\ args.tbsPath # "" /\ args.signature # "" /\ args.crt # ""

\* the signature file holds no signature byte: it is empty, or the base64
\* text of nothing, or a PEM block of nothing
EmptySignatureFile ==
  /\ disk.signature.readable
  /\ disk.signature.bytes \in { <<>>, << <<"b64", <<>>>> >>, << <<"pem", <<>>>> >> }

\* the body file holds no byte of a body: it is empty, or a PEM block of nothing
EmptyTBSFile == disk.tbs.readable /\ disk.tbs.bytes \in { <<>>, << <<"pem", <<>>>> >> }

\* C21: an assembly given an empty body or an empty signature ends in a fatal
\* error with nothing written or printed, and an assembly that succeeds had
\* a body and a signature that were not empty.
C21_EmptyInputsFatal ==
  /\ (pc = "exit" /\ Assembling /\ (EmptyTBSFile \/ EmptySignatureFile)) =>
       (EndedFatal /\ NoOutputAtAll)
  /\ (Built /\ args.cmd = "assemble") =>
       /\ ~EmptyTBSFile
       /\ ~EmptySignatureFile
       /\ Len(BuiltBytes) >= 3

\* an assembly with a body and a certificate of a supported algorithm was
\* refused by AssembleCRL because its signature file is empty
C21_Witness ==
  /\ pc = "exit"
  /\ Assembling
  /\ ~EmptyTBSFile
  /\ disk.signature.readable
  /\ disk.signature.bytes = <<>>
  /\ calls = <<"ParseTBSCRL", "ReadSignatureFile", "ParseCertificate", "AssembleCRL">>
  /\ ~GetSignatureAlgAndHash(crt).err
  /\ args.out # ""
  /\ exit = "failed to assemble CRL"

\* the six signature algorithms of the table, with their digest functions
TableHash(sigAlg) ==
  CASE sigAlg \in {"SHA256WithRSA", "ECDSAWithSHA256"} -> "SHA256"
    [] sigAlg \in {"SHA384WithRSA", "ECDSAWithSHA384"} -> "SHA384"
    [] sigAlg \in {"SHA512WithRSA", "ECDSAWithSHA512"} -> "SHA512"
    [] OTHER -> "none"

\* C22: a certificate's signature algorithm has an identifier and a digest
\* function exactly when it is RSA or ECDSA with SHA-256, SHA-384 or SHA-512;
\* with any other algorithm an assembly and a TBS build end in a fatal error
\* with nothing written or printed.
C22_FixedAlgorithmTable ==
  crt # NoCert =>
    /\ GetSignatureAlgAndHash(crt).err <=> TableHash(crt.sigAlg) = "none"
    /\ GetSignatureAlgAndHash(crt).hash = TableHash(crt.sigAlg)
    /\ (pc = "exit" /\ TableHash(crt.sigAlg) = "none" /\ (args.cmd = "assemble" \/ args.tbs)) =>
         (EndedFatal /\ NoOutputAtAll)

\* a TBS build from an RSA-PSS certificate got as far as CreateCRL and failed
C22_Witness ==
  /\ pc = "exit"
  /\ args.cmd = "create"
  /\ args.tbs
  /\ crt.sigAlg = "SHA256WithRSAPSS"
  /\ args.out # ""
  /\ ~env.outFails
  /\ ~env.digestFails
  /\ calls[Len(calls)] = "CreateCRL"
  /\ exit = "failed to create CRL"

\* the signature bytes of an assembled list: what follows the body and the
\* algorithm identifier
AssembledSignature == SubSeq(BuiltBytes, 3, Len(BuiltBytes))

\* the byte string reads as base64 text
IsBase64Text(bytes) == Len(bytes) = 1 /\ bytes[1][1] = "b64"

\* C23 as stated: whatever byte string the signature file holds, as it is or
\* as base64 text, the assembly uses that byte string.
C23_SignatureFileTransparent ==
  (Built /\ args.cmd = "assemble") => AssembledSignature = disk.signature.holds

\* the byte string holds a PEM block
HoldsPEMBlock(bytes) == \E i \in 1..Len(bytes) : bytes[i][1] = "pem"

\* what is read of the byte strings that are not taken as they are, with s
\* the signature: the base64 text of s, a PEM block of s, a PEM block of the
\* base64 text of s, and a PEM block of s after other bytes all give s
DecodedSignature(bytes, s) ==
  CASE bytes = << <<"b64", s>> >> -> s
    [] bytes = << <<"pem", s>> >> -> s
    [] bytes = << <<"pem", << <<"b64", s>> >> >> >> -> s
    [] bytes = << <<"junk">>, <<"pem", s>> >> -> s
    [] OTHER -> <<>>

\* C23: a file holding the base64 text of a signature gives that signature,
\* and a file holding a signature as it is gives it unless its bytes hold a
\* PEM block or are themselves base64 text: of a PEM block the payload is
\* taken, and base64 text, the payload's too, is decoded.
C23_SignatureFileDecoded ==
  (Built /\ args.cmd = "assemble") =>
    /\ disk.signature.encoding = "base64" => AssembledSignature = disk.signature.holds
    /\ (/\ disk.signature.encoding = "raw"
        /\ ~IsBase64Text(disk.signature.holds)
        /\ ~HoldsPEMBlock(disk.signature.holds)) =>
         AssembledSignature = disk.signature.holds
    /\ (/\ disk.signature.encoding = "raw"
        /\ IsBase64Text(disk.signature.holds) \/ HoldsPEMBlock(disk.signature.holds)) =>
         AssembledSignature = DecodedSignature(disk.signature.holds, <<SampleSignature(crt)>>)

\* an assembly read its signature from base64 text
C23_Witness ==
  /\ Built
  /\ args.cmd = "assemble"
  /\ disk.signature.encoding = "base64"
  /\ disk.signature.holds = <<SampleSignature(crt)>>
  /\ AssembledSignature = <<SampleSignature(crt)>>

\* the prior CRLs that parse and carry no CRL number
UnnumberedSources == {i \in ParsedSources : ~disk.crls[i].hasNumber}

\* C27: a prior CRL that parses and carries no CRL number does not stop the
\* run: extraction completes, the highest number is that of the numbered
\* sources, and with no --number the built list carries that number plus
\* one, or 1 when no source has a number.
C27_UnnumberedSourceTolerated ==
  (pc = "exit" /\ IsIn("ExtractRevocationEntries", calls) /\ UnnumberedSources # {}) =>
    /\ exit # "panic"
    /\ args.number = <<>> =>
         /\ Built
         /\ BuiltNumber = IF ParsedNumbers = {} THEN 1 ELSE Max(ParsedNumbers) + 1

\* the TBS body was emitted: written at --out or printed as a PEM block
BodyEmitted == out # NoOutput \/ stdout # <<>>

\* C28: a TBS build emits its digest file and its body together or not at
\* all, and a TBS build that ends in a fatal error has written neither.
C28_DigestAndBodyTogether ==
  (pc = "exit" /\ args.cmd = "create" /\ args.tbs) =>
    /\ digest # NoOutput <=> BodyEmitted
    /\ EndedFatal => (digest = NoOutput /\ ~BodyEmitted)

\* the build of the present run repeated with another throwaway key and
\* other randomness of the signer
Rebuild(fresh, nonce) ==
  CreateCRL(crt, key, CreateParams, [env EXCEPT !.fresh = fresh, !.nonce = nonce])

\* no chunk of the byte string is a signature value
NoSignatureIn(bytes) == \A i \in 1..Len(bytes) : bytes[i][1] # "sig"

\* C29: what a TBS build emits does not depend on its throwaway key: the
\* same inputs with any other throwaway key and signer randomness give the
\* same body and the same digest, and neither holds a signature value.
C29_TBSIndependentOfThrowawayKey ==
  (Built /\ args.tbs) =>
    /\ \A fresh \in {8, 9}, nonce \in {0, 1} :
         /\ ~Rebuild(fresh, nonce).err
         /\ OutputBytes(Rebuild(fresh, nonce)) = BuiltBytes
         /\ Rebuild(fresh, nonce).out = out
         /\ Rebuild(fresh, nonce).digest = digest
    /\ NoSignatureIn(BuiltBytes)
    /\ NoSignatureIn(digest.bytes)

\* a TBS build from an RSA issuer with throwaway key 9 wrote its body and
\* its digest
C29_Witness ==
  /\ Built
  /\ args.tbs
  /\ env.fresh = 9
  /\ crt.keyType = "RSA"
  /\ out.written
  /\ digest.written
  /\ BuiltBytes = ExtractTBS(CreateRevocationList(CRLTemplate(crt, CreateParams), crt,
                                                  DummySigner(crt, 9).key, env.nonce).der).tbs

\* the entries of the prior CRLs that parse, in source order
RECURSIVE PriorEntries(_)
PriorEntries(files) ==
  IF files = <<>> THEN <<>>
  ELSE (IF Head(files).readable /\ Head(files).parses THEN Head(files).entries ELSE <<>>)
       \o PriorEntries(Tail(files))

\* the revocation time of the first entry with the serial in source order
FirstTime(serial) ==
  LET all == PriorEntries(disk.crls)
      i   == CHOOSE k \in 1..Len(all) :
               all[k].serial = serial /\ \A j \in 1..(k - 1) : all[j].serial # serial
  IN all[i].time

\* C25: a built list is the entries recovered from the prior CRLs followed by
\* the entries added from the include list; each recovered entry carries the
\* time of the first occurrence of its serial in source order, no serial is
\* recovered twice, and each added entry carries the list's ThisUpdate.
C25_TimesByProvenance ==
  Built =>
    \E n \in 0..Len(BuiltEntries) :
      /\ \A k \in 1..n :
           /\ BuiltEntries[k].serial \in PriorSerials
           /\ BuiltEntries[k].time = FirstTime(BuiltEntries[k].serial)
           /\ \A j \in 1..n : BuiltEntries[j].serial = BuiltEntries[k].serial => j = k
      /\ \A k \in (n + 1)..Len(BuiltEntries) :
           /\ BuiltEntries[k].serial \in IncludeValues
           /\ BuiltEntries[k].time = BuiltThisUpdate

\* serial 0x11 revoked in two prior CRLs at different times and 0xaa added
\* from the include list: the first time is kept, the new entry is dated
\* ThisUpdate
C25_Witness ==
  /\ Built
  /\ disk.crls = <<MergeCRL(<<17>>, 1), MergeCRL(<<17>>, 2)>>
  /\ BuiltEntries = << [serial |-> NewInt(17), time |-> Date(2020, 1, 1, 0, 0, 1, 0, 0)],
                       [serial |-> NewInt(170), time |-> BuiltThisUpdate] >>
  /\ BuiltThisUpdate = Date(2024, 1, 1, 0, 0, 0, 0, 0)

\* the run extends the list an earlier run of the lineage wrote
Extending == disk.builds >= 1

\* C24 as stated: a build that extends lists built earlier never carries a
\* number below the number of a list it extends.
C24_NumberNeverDecreases ==
  (Built /\ Extending) => \A i \in ParsedSources : BuiltNumber >= Int64(disk.crls[i].number)

\* C24: a build without --number that extends lists built earlier carries a
\* number above the number of every list it extends; with --number it
\* carries the number given, which may be lower.
C24_AutoNumberNeverDecreases ==
  (Built /\ Extending) =>
    /\ ParsedSources = {1}
    /\ args.number = <<>> => \A i \in ParsedSources : BuiltNumber > Int64(disk.crls[i].number)
    /\ args.number # <<>> => BuiltTBS[8] = ExplicitNumber

\* the first build was numbered 7 with --number, the second and the third
\* were built without --number and carry 8 and 9
C24_Witness ==
  /\ Built
  /\ disk.builds = 2
  /\ args.number = <<>>
  /\ disk.crls[1].number = NewInt(8)
  /\ BuiltNumber = 9

\* the set of (serial, revocation time) pairs of a sequence of entries
EntryPairs(es) == {<<es[k].serial, es[k].time>> : k \in 1..Len(es)}

\* C30: a build from a single list built by an earlier run, with no include
\* line, no ignore line and no --number, has the (serial, time) pairs of that
\* list and its number plus one.
C30_ReextensionStable ==
  (Built /\ Extending /\ disk.serials.lines = <<>> /\ disk.ignore.lines = <<>>
         /\ args.number = <<>>) =>
    /\ EntryPairs(BuiltEntries) = EntryPairs(disk.crls[1].entries)
    /\ BuiltNumber = Int64(disk.crls[1].number) + 1

\* the targets a -targets value lists: its pieces between commas, each an
\* os and an arch separated by "/"
ListedTargets(targets) ==
  {BuildTarget(Split(t, "/")[1], Split(t, "/")[2]) : t \in Range(Split(targets, ","))}

\* every piece of the -targets value between commas is os/arch
WellFormedTargets(targets) ==
  targets # <<>> /\ \A t \in Range(Split(targets, ",")) :
                      Len(Split(t, "/")) = 2 /\ Split(t, "/")[1] # <<>> /\ Split(t, "/")[2] # <<>>

\* the targets the helper has started a goroutine for
StartedTargets == {builder.buildTargets[i] : i \in 1..Len(builder.stage)}

\* C26: with -targets holding os/arch values separated by commas and without
\* -all the helper ends normally having built exactly the listed targets;
\* with -targets and -all it exits with an error and has built nothing.
C26_TargetsBuilt ==
  builder.pc = "exit" =>
    /\ (WellFormedTargets(builder.targets) /\ ~builder.all /\ builder.name # <<>>) =>
         /\ builder.code = 0
         /\ StartedTargets = ListedTargets(builder.targets)
    /\ (builder.targets # <<>> /\ builder.all) =>
         /\ builder.code = 1
         /\ StartedTargets = {}
         /\ builder.dirs = {}

=============================================================================
